---- MODULE Spec2Model ----
(***************************************************************************)
(* pdf-brain: the clustering service (k-means, mini-batch k-means, soft    *)
(* clustering with BIC selection) and the hybrid search merge of           *)
(* PDFLibrary.search.                                                      *)
(*                                                                         *)
(* Numbers.  A JavaScript number is held as an exact rational              *)
(* [n |-> numerator, d |-> denominator > 0] in lowest terms; d = 0 marks   *)
(* the two non-finite values the code can meet: NaN (an arithmetic         *)
(* operand that is `undefined`, as in b[i] past the end of b) and          *)
(* Infinity (the initial minDist).  A Euclidean distance is carried as its *)
(* square: Math.sqrt is strictly increasing, so each comparison of two     *)
(* distances in the code is the same comparison of their squares.          *)
(***************************************************************************)
EXTENDS Integers, Sequences, FiniteSets, TLC

VARIABLES
  op,                \* entry point of the call in progress
  pc,                \* position of the call
  embeddings,        \* the input vectors (embeddings.map(e => e.vector))
  options,           \* the options record of the call
  centroids,         \* kMeans / miniBatchKMeans: centroids
  assignments,       \* kMeans: assignments; miniBatchKMeans: final assignments
  iter,              \* loop counter of the clustering loop
  stop,              \* why the loop was left
  centroidCounts,    \* miniBatchKMeans: per-centroid sample counts
  previousCentroids, \* miniBatchKMeans: centroids at the last convergence check
  sampled,           \* miniBatchKMeans: indices drawn into some batch so far
  bicScores,         \* clusterSoft: metadata.bicScores
  bestK,             \* clusterSoft: bestK
  bestBIC,           \* clusterSoft: bestBIC
  kTry,              \* clusterSoft: k of the BIC loop
  result,            \* value the call resolved with, or the error it failed with
  healthCheck,       \* search: Either of ollama.checkHealth()
  vectorResults,     \* search: rows db.vectorSearch returned
  ftsResults,        \* search: rows db.ftsSearch returned
  results,           \* search: the merged list
  finalResults,      \* search: the sorted, limited list
  store,             \* search: the chunks table and the scores of the store
  calls,             \* search: the collaborator calls made, in order
  expandedRanges,    \* search: the Map docId -> {start, end, content}
  expandIdx,         \* search: hits of finalResults already expanded
  expandedOut,       \* search: the hits Effect.all has produced so far
  cluster,           \* mapCluster: the cluster argument
  concepts,          \* mapCluster: the concepts argument
  bestMatch,         \* mapCluster: bestMatch
  conceptIdx,        \* mapCluster: concepts the loop has visited
  chunks,            \* summarize: the chunks argument (their contents)
  llm,               \* summarize: outcome of generateObject
  runs,              \* concurrent calls: the working set of each call
  cancelAt,          \* iter when the caller asked to abandon the run, or -1
  fs,                \* daemon: socket file and PID file of each config
  activeDaemon,      \* daemon: the module's activeDaemon (0 for null)
  instances,         \* daemon: the database instances open, with their servers
  dcalls,            \* daemon: the calls of startDaemon and stopDaemon made
  detectedEmbeddingDimension,  \* ollama: the module variable (0 for null)
  returned,          \* ollama: lengths of the embeddings returned so far
  attempt,           \* ollama: retries used by the embed call in progress
  embedOutcome,      \* ollama: how the last attempt or probe ended
  library,           \* library: documents, chunk rows and embedding rows by path
  adding,            \* library: the call of add in progress or last made
  addCount,          \* library: calls of add made
  missing,           \* regenerate: chunks in the database without an embedding
  regen              \* regenerate: main's position and counters

clusterVars == <<embeddings, options, centroids, assignments, iter, stop,
                 centroidCounts, previousCentroids, sampled,
                 bicScores, bestK, bestBIC, kTry>>
searchVars == <<healthCheck, vectorResults, ftsResults, results, finalResults,
                store, calls, expandedRanges, expandIdx, expandedOut>>
labelVars == <<cluster, concepts, bestMatch, conceptIdx, chunks, llm>>
daemonVars == <<fs, activeDaemon, instances, dcalls>>
ollamaVars == <<detectedEmbeddingDimension, returned, attempt, embedOutcome>>
libraryVars == <<library, adding, addCount>>
regenVars == <<missing, regen>>
sysVars == <<runs, cancelAt, daemonVars, ollamaVars, libraryVars, regenVars>>
callVars == <<op, pc, result, clusterVars, searchVars, labelVars>>
vars == <<callVars, sysVars>>

(***************************************************************************)
(* Bounds of the model.                                                    *)
(***************************************************************************)
MaxPoints == 3        \* cluster: at most this many embeddings in a call
MaxPointsMB == 2      \* clusterMiniBatch, clusterSoft: at most this many embeddings
MaxK == 4             \* options.k ranges over 0 .. MaxK
MaxIterations == 1    \* explicit options.maxIterations are 0 and MaxIterations
MaxBatchSize == 1     \* explicit options.batchSize ranges over 1 .. MaxBatchSize
MaxIterationsMB == 2  \* clusterMiniBatch: explicit maxIterations over 0 .. MaxIterationsMB
MaxClusters == 3      \* clusterSoft: options.maxClusters ranges over 0 .. MaxClusters
MaxPointsSoft == 3    \* clusterSoft without BIC: at most this many embeddings

\* Defaults of the options a call leaves out.
DefaultMaxIterations == 100
DefaultBatchSize == 100
DefaultTemperature == [n |-> 1, d |-> 2]

\* The embedding vectors calls are made with: one- and two-dimensional.
Coords == {0, 1, 400}
Vectors == {<<c>> : c \in Coords} \cup {<<0, 1>>}
VectorsMB == {<<0>>, <<1>>, <<0, 1>>}
VectorsSoft == {<<c>> : c \in Coords} \cup {<<0, 1>>}
VectorsNear == {<<0>>, <<1>>, <<2>>}

(***************************************************************************)
(* Arithmetic on numbers.                                                  *)
(***************************************************************************)
NaN == [n |-> 0, d |-> 0]
Infinity == [n |-> 1, d |-> 0]

Abs(x) == IF x < 0 THEN -x ELSE x
Min(a, b) == IF a < b THEN a ELSE b

RECURSIVE Gcd(_, _)
Gcd(a, b) == IF b = 0 THEN a ELSE Gcd(b, a % b)

Rat(n, d) == LET g == Gcd(Abs(n), d) IN [n |-> n \div g, d |-> d \div g]
Num(x) == [n |-> x, d |-> 1]
IsNaN(a) == a = NaN
IsFinite(a) == a.d > 0

Add(a, b) == IF IsFinite(a) /\ IsFinite(b)
             THEN Rat(a.n * b.d + b.n * a.d, a.d * b.d) ELSE NaN
Sub(a, b) == IF IsFinite(a) /\ IsFinite(b)
             THEN Rat(a.n * b.d - b.n * a.d, a.d * b.d) ELSE NaN
Mul(a, b) == IF IsFinite(a) /\ IsFinite(b)
             THEN Rat(a.n * b.n, a.d * b.d) ELSE NaN
DivBy(a, m) == IF IsFinite(a) THEN Rat(a.n, a.d * m) ELSE NaN

\* a < b in JavaScript: false as soon as an operand is NaN.
Less(a, b) ==
  IF IsNaN(a) \/ IsNaN(b) THEN FALSE
  ELSE IF a = Infinity THEN FALSE
  ELSE IF b = Infinity THEN TRUE
  ELSE a.n * b.d < b.n * a.d

\* v[i] used as an arithmetic operand: `undefined` past the end gives NaN.
At(v, i) == IF i \in 1..Len(v) THEN v[i] ELSE NaN

\* A vector of integers as a vector of numbers.
Vec(v) == [i \in 1..Len(v) |-> Num(v[i])]

RECURSIVE SumSeq(_)
SumSeq(s) == IF s = <<>> THEN Num(0) ELSE Add(s[1], SumSeq(Tail(s)))

(***************************************************************************)
(* Math utilities.                                                         *)
(***************************************************************************)
\* euclideanDistance(a, b), as its square:
\* a.reduce((sum, val, i) => sum + (val - b[i]) ** 2, 0).
euclideanDistance(a, b) ==
  SumSeq([i \in 1..Len(a) |-> LET diff == Sub(a[i], At(b, i)) IN Mul(diff, diff)])

\* meanVector(vectors): dims is the length of the first vector.
meanVector(vectors) ==
  IF Len(vectors) = 0 THEN <<>>
  ELSE [i \in 1..Len(vectors[1]) |->
          DivBy(SumSeq([j \in 1..Len(vectors) |-> At(vectors[j], i)]), Len(vectors))]

\* A comparison of the lengths alone.
arraysEqualLength(a, b) == Len(a) = Len(b)

arraysEqual(a, b) == Len(a) = Len(b) /\ \A i \in 1..Len(a) : a[i] = b[i]

(***************************************************************************)
(* K-means.  Cluster ids are 0-based as in the code; centroids[c + 1] is   *)
(* the centroid of cluster c.                                              *)
(***************************************************************************)
\* The nearest-centroid scan: for (i = 0; i < k; i++) if (dist < minDist) ...
RECURSIVE nearestFrom(_, _, _, _, _, _)
nearestFrom(v, cs, k, i, minDist, minIdx) ==
  IF i >= k THEN minIdx
  ELSE LET dist == euclideanDistance(v, cs[i + 1]) IN
       IF Less(dist, minDist) THEN nearestFrom(v, cs, k, i + 1, dist, i)
       ELSE nearestFrom(v, cs, k, i + 1, minDist, minIdx)

\* The scan started one centroid too late.
nearestSkippingFirst(v, cs, k) == nearestFrom(v, cs, k, 1, Infinity, 0)

nearest(v, cs, k) == nearestFrom(v, cs, k, 0, Infinity, 0)

\* Every point left in cluster 0.
assignAllToFirst(vectors, cs, k) == [idx \in 1..Len(vectors) |-> 0]
assignAll(vectors, cs, k) == [idx \in 1..Len(vectors) |-> nearest(vectors[idx], cs, k)]

\* vectors.filter((_, idx) => assignments[idx] === i)
RECURSIVE clusterVectorsFrom(_, _, _, _)
clusterVectorsFrom(vectors, asg, i, idx) ==
  IF idx > Len(vectors) THEN <<>>
  ELSE IF asg[idx] = i
       THEN <<vectors[idx]>> \o clusterVectorsFrom(vectors, asg, i, idx + 1)
       ELSE clusterVectorsFrom(vectors, asg, i, idx + 1)

clusterVectors(vectors, asg, i) == clusterVectorsFrom(vectors, asg, i, 1)

updateCentroids(vectors, cs, asg, k) ==
  [c \in 1..k |->
     LET members == clusterVectors(vectors, asg, c - 1) IN
     IF Len(members) > 0 THEN meanVector(members) ELSE cs[c]]

\* Math.min(...xs): NaN as soon as one argument is NaN.
RECURSIVE MathMin(_)
MathMin(xs) ==
  IF Len(xs) = 1 THEN xs[1]
  ELSE LET m == MathMin(Tail(xs)) IN
       IF IsNaN(xs[1]) \/ IsNaN(m) THEN NaN
       ELSE IF Less(xs[1], m) THEN xs[1] ELSE m

\* kMeansPlusPlusInit: the indices the weighted draw can select next.
\* threshold = Math.random() * totalDist and the scan stops at the first j
\* with threshold <= 0: index 0 when the draw is 0 (or totalDist is 0), else
\* an index of positive weight.  With a NaN weight no j is selected and the
\* fallback draws any index.
seedCandidates(vectors, cs) ==
  LET distances == [j \in 1..Len(vectors) |->
                      MathMin([c \in 1..Len(cs) |-> euclideanDistance(vectors[j], cs[c])])]
      totalDist == SumSeq(distances)
  IN IF IsNaN(totalDist) THEN 1..Len(vectors)
     ELSE {1} \cup {j \in 1..Len(vectors) : Less(Num(0), distances[j])}

RECURSIVE seedsFrom(_, _, _)
seedsFrom(vectors, k, cs) ==
  IF Len(cs) >= k THEN {cs}
  ELSE UNION {seedsFrom(vectors, k, Append(cs, vectors[j])) :
                j \in seedCandidates(vectors, cs)}

\* Every centroid list kMeansPlusPlusInit(vectors, k) can return.
kMeansPlusPlusInit(vectors, k) ==
  UNION {seedsFrom(vectors, k, <<vectors[f]>>) : f \in 1..Len(vectors)}

\* The argument check without its last test.
invalidInputNoUpperBound(vectors, k) == Len(vectors) = 0 \/ k <= 0

\* The argument check at the head of kMeans and miniBatchKMeans.
invalidInput(vectors, k) == Len(vectors) = 0 \/ k <= 0 \/ k > Len(vectors)

\* One pass of the kMeans loop body.
kMeansStep(vectors, k, cs, asg) ==
  LET newAssignments == assignAll(vectors, cs, k) IN
  IF arraysEqual(asg, newAssignments)
  THEN [unchanged |-> TRUE, centroids |-> cs, assignments |-> asg]
  ELSE [unchanged |-> FALSE,
        centroids |-> updateCentroids(vectors, cs, newAssignments, k),
        assignments |-> newAssignments]

\* The kMeans loop from given centroids, to its return value.
RECURSIVE kMeansLoop(_, _, _, _, _, _)
kMeansLoop(vectors, k, cs, asg, it, maxIterations) ==
  IF it >= maxIterations
  THEN [centroids |-> cs, assignments |-> asg, stop |-> "maxIterations"]
  ELSE LET s == kMeansStep(vectors, k, cs, asg) IN
       IF s.unchanged
       THEN [centroids |-> cs, assignments |-> asg, stop |-> "unchanged"]
       ELSE kMeansLoop(vectors, k, s.centroids, s.assignments, it + 1, maxIterations)

\* Every value kMeans(vectors, k, maxIterations) can return (valid arguments).
kMeans(vectors, k, maxIterations) ==
  {kMeansLoop(vectors, k, cs, [i \in 1..Len(vectors) |-> 0], 0, maxIterations) :
     cs \in kMeansPlusPlusInit(vectors, k)}

(***************************************************************************)
(* Initial states.                                                         *)
(***************************************************************************)
None == "none"
NoResult == [tag |-> "none"]

Inputs == UNION {[1..n -> Vectors] : n \in 0..MaxPoints}
InputsMB == UNION {[1..n -> VectorsMB] : n \in 0..MaxPointsMB}

NoCluster == [id |-> 0, summary |-> <<>>, centroid |-> <<>>]
NullMatch == [tag |-> "null"]
NoStore == [chunks |-> <<>>, vectorScores |-> {}, ftsScores |-> {}]

InitLocal ==
  /\ pc = "start"
  /\ centroids = <<>>
  /\ assignments = <<>>
  /\ iter = 0
  /\ stop = None
  /\ centroidCounts = <<>>
  /\ previousCentroids = <<>>
  /\ sampled = {}
  /\ bicScores = <<>>
  /\ bestK = 1
  /\ bestBIC = Infinity
  /\ kTry = 1
  /\ result = NoResult
  /\ healthCheck = None
  /\ vectorResults = <<>>
  /\ ftsResults = <<>>
  /\ results = <<>>
  /\ finalResults = <<>>
  /\ calls = <<>>
  /\ expandedRanges = <<>>
  /\ expandIdx = 0
  /\ expandedOut = <<>>
  /\ bestMatch = NullMatch
  /\ conceptIdx = 0
  /\ llm = None

\* Nothing but the call is in progress.
NoDaemon == fs = <<>> /\ activeDaemon = 0 /\ instances = {} /\ dcalls = <<>>
NoOllama ==
  /\ detectedEmbeddingDimension = 0 /\ returned = <<>>
  /\ attempt = 0 /\ embedOutcome = "none"
NoLibrary == library = <<>> /\ adding = <<>> /\ addCount = 0
NoRegen == missing = 0 /\ regen = <<>>
NoSystem ==
  runs = <<>> /\ cancelAt = -1 /\ NoDaemon /\ NoOllama /\ NoLibrary /\ NoRegen

InitCall == InitLocal /\ NoSystem

\* No store and no cluster to label are involved in a call.
NoSearchCall == store = NoStore
NoLabelCall == cluster = NoCluster /\ concepts = <<>> /\ chunks = <<>>

InitCommon == InitCall /\ NoSearchCall /\ NoLabelCall

\* No call of the services above is in progress.
NoCall ==
  /\ op = None /\ embeddings = <<>> /\ options = <<>>
  /\ InitLocal /\ NoLabelCall

InitCluster ==
  /\ op = "cluster"
  /\ \E e \in Inputs : embeddings = [i \in 1..Len(e) |-> Vec(e[i])]
  /\ \E k \in 0..MaxK, m \in {0, MaxIterations, DefaultMaxIterations} :
        options = [k |-> k, maxIterations |-> m]
  /\ InitCommon

(***************************************************************************)
(* ClusteringService.cluster, in steps: kMeans's argument check and        *)
(* seeding, each pass of its loop, and the construction of the result.     *)
(***************************************************************************)
ClusteringError == [tag |-> "ClusteringError"]

ClusterStart ==
  /\ op = "cluster" /\ pc = "start"
  /\ IF invalidInput(embeddings, options.k)
     THEN /\ result' = ClusteringError
          /\ pc' = "done"
          /\ UNCHANGED <<centroids, assignments>>
     ELSE /\ \E cs \in kMeansPlusPlusInit(embeddings, options.k) : centroids' = cs
          /\ assignments' = [i \in 1..Len(embeddings) |-> 0]
          /\ pc' = "loop"
          /\ UNCHANGED result
  /\ UNCHANGED <<op, sysVars, labelVars, embeddings, options, iter, stop, centroidCounts,
                 previousCentroids, sampled, bicScores, bestK, bestBIC, kTry,
                 searchVars>>

ClusterIterate ==
  /\ op = "cluster" /\ pc = "loop"
  /\ IF iter >= options.maxIterations
     THEN /\ stop' = "maxIterations"
          /\ pc' = "return"
          /\ UNCHANGED <<centroids, assignments, iter>>
     ELSE LET s == kMeansStep(embeddings, options.k, centroids, assignments) IN
          IF s.unchanged
          THEN /\ stop' = "unchanged"
               /\ pc' = "return"
               /\ UNCHANGED <<centroids, assignments, iter>>
          ELSE /\ centroids' = s.centroids
               /\ assignments' = s.assignments
               /\ iter' = iter + 1
               /\ UNCHANGED <<stop, pc>>
  /\ UNCHANGED <<op, sysVars, labelVars, embeddings, options, centroidCounts, previousCentroids,
                 sampled, bicScores, bestK, bestBIC, kTry, result, searchVars>>

\* A ClusterResult that leaves out the clusters without members.
clusterResultCompacted(vectors, cs, asg) ==
  [tag |-> "ClusterResult",
   clusters |-> SelectSeq([c \in 1..Len(cs) |->
                             [id |-> c - 1, centroid |-> cs[c],
                              size |-> Cardinality({i \in 1..Len(asg) : asg[i] = c - 1})]],
                          LAMBDA cl : cl.size > 0),
   assignments |-> [idx \in 1..Len(vectors) |->
                      [id |-> idx, clusterId |-> asg[idx],
                       distance |-> euclideanDistance(vectors[idx], cs[asg[idx] + 1])]]]

\* The ClusterResult built from kMeans's return value.
clusterResult(vectors, cs, asg) ==
  [tag |-> "ClusterResult",
   clusters |-> [c \in 1..Len(cs) |->
                   [id |-> c - 1, centroid |-> cs[c],
                    size |-> Cardinality({i \in 1..Len(asg) : asg[i] = c - 1})]],
   assignments |-> [idx \in 1..Len(vectors) |->
                      [id |-> idx, clusterId |-> asg[idx],
                       distance |-> euclideanDistance(vectors[idx], cs[asg[idx] + 1])]]]

ClusterReturn ==
  /\ op = "cluster" /\ pc = "return"
  /\ result' = clusterResult(embeddings, centroids, assignments)
  /\ pc' = "done"
  /\ UNCHANGED <<op, sysVars, labelVars, clusterVars, searchVars>>

NextCluster == ClusterStart \/ ClusterIterate \/ ClusterReturn

SpecCluster == InitCluster /\ [][NextCluster]_vars

(***************************************************************************)
(* Mini-batch k-means.                                                     *)
(***************************************************************************)
\* The batches one iteration can draw: actualBatchSize distinct indices.  All
\* of a batch is assigned before any centroid moves and each centroid is
\* moved to a running mean, so the order of the draws does not change the
\* outcome: a batch is held in ascending order.
batches(n, actualBatchSize) ==
  IF actualBatchSize <= 0 THEN {<<>>}
  ELSE {b \in [1..actualBatchSize -> 1..n] :
          \A i, j \in 1..actualBatchSize : i < j => b[i] < b[j]}

\* The incremental update of one sampled vector x, assigned to cluster c:
\* centroidCounts[c]++; eta = 1 / centroidCounts[c];
\* centroids[c][d] = (1 - eta) * centroids[c][d] + eta * x[d].
updateOne(st, x, c) ==
  LET count == st.counts[c + 1] + 1
      eta == Rat(1, count)
      old == st.centroids[c + 1]
      new == [d \in 1..Len(old) |->
                Add(Mul(Sub(Num(1), eta), old[d]), Mul(eta, At(x, d)))]
  IN [centroids |-> [st.centroids EXCEPT ![c + 1] = new],
      counts |-> [st.counts EXCEPT ![c + 1] = count]]

RECURSIVE updateBatch(_, _, _, _, _)
updateBatch(st, vectors, batchIndices, batchAssignments, i) ==
  IF i > Len(batchIndices) THEN st
  ELSE updateBatch(updateOne(st, vectors[batchIndices[i]], batchAssignments[i]),
                   vectors, batchIndices, batchAssignments, i + 1)

\* centroidDelta(old, new), as its square (the sum under Math.sqrt).
centroidDelta(oldCentroids, newCentroids) ==
  SumSeq([i \in 1..Len(oldCentroids) |->
            SumSeq([d \in 1..Len(oldCentroids[i]) |->
                      LET diff == Sub(oldCentroids[i][d], At(At(newCentroids, i), d))
                      IN Mul(diff, diff)])])

\* delta < convergenceThreshold (1e-4), on the squares: sumSq < 1e-8.
ConvergenceThresholdSqInv == 100000000
belowThreshold(sumSq) ==
  IsFinite(sumSq) /\ sumSq.n <= (sumSq.d - 1) \div ConvergenceThresholdSqInv

CheckEvery == 10

\* One pass of the miniBatchKMeans loop body with the batch drawn.
miniBatchStep(vectors, k, cs, counts, prev, it, batchIndices) ==
  LET batchAssignments ==
        [i \in 1..Len(batchIndices) |-> nearest(vectors[batchIndices[i]], cs, k)]
      st == updateBatch([centroids |-> cs, counts |-> counts],
                        vectors, batchIndices, batchAssignments, 1)
      check == it % CheckEvery = 0 /\ it > 0
      converged == check /\ belowThreshold(centroidDelta(prev, st.centroids))
  IN [centroids |-> st.centroids,
      counts |-> st.counts,
      converged |-> converged,
      previousCentroids |-> IF check /\ ~converged THEN st.centroids ELSE prev]

InitMiniBatch ==
  /\ op = "clusterMiniBatch"
  /\ \E e \in InputsMB : embeddings = [i \in 1..Len(e) |-> Vec(e[i])]
  /\ \E k \in 0..MaxK :
        \/ \E b \in 1..MaxBatchSize, m \in 0..MaxIterationsMB :
              options = [k |-> k, batchSize |-> b, maxIterations |-> m]
        \/ options = [k |-> k, batchSize |-> DefaultBatchSize,
                      maxIterations |-> DefaultMaxIterations]
  /\ InitCommon

(***************************************************************************)
(* ClusteringService.clusterMiniBatch, in steps.                           *)
(***************************************************************************)
MiniBatchStart ==
  /\ op = "clusterMiniBatch" /\ pc = "start"
  /\ IF invalidInput(embeddings, options.k)
     THEN /\ result' = ClusteringError
          /\ pc' = "done"
          /\ UNCHANGED <<centroids, centroidCounts, previousCentroids>>
     ELSE /\ \E cs \in kMeansPlusPlusInit(embeddings, options.k) :
               /\ centroids' = cs
               /\ previousCentroids' = cs
          /\ centroidCounts' = [c \in 1..options.k |-> 0]
          /\ pc' = "loop"
          /\ UNCHANGED result
  /\ UNCHANGED <<op, sysVars, labelVars, embeddings, options, assignments, iter, stop, sampled,
                 bicScores, bestK, bestBIC, kTry, searchVars>>

MiniBatchIterate ==
  /\ op = "clusterMiniBatch" /\ pc = "loop"
  /\ IF iter >= options.maxIterations
     THEN /\ stop' = "maxIterations"
          /\ pc' = "return"
          /\ UNCHANGED <<centroids, centroidCounts, previousCentroids, iter, sampled>>
     ELSE \E batchIndices \in batches(Len(embeddings),
                                      Min(options.batchSize, Len(embeddings))) :
            LET s == miniBatchStep(embeddings, options.k, centroids, centroidCounts,
                                   previousCentroids, iter, batchIndices) IN
            /\ centroids' = s.centroids
            /\ centroidCounts' = s.counts
            /\ previousCentroids' = s.previousCentroids
            /\ sampled' = sampled \cup {batchIndices[i] : i \in 1..Len(batchIndices)}
            /\ IF s.converged
               THEN stop' = "converged" /\ pc' = "return" /\ UNCHANGED iter
               ELSE iter' = iter + 1 /\ UNCHANGED <<stop, pc>>
  /\ UNCHANGED <<op, sysVars, labelVars, embeddings, options, assignments, bicScores, bestK, bestBIC,
                 kTry, result, searchVars>>

\* The final assignment of all points and the ClusterResult built from it.
MiniBatchReturn ==
  /\ op = "clusterMiniBatch" /\ pc = "return"
  /\ assignments' = assignAll(embeddings, centroids, options.k)
  /\ result' = clusterResult(embeddings, centroids, assignments')
  /\ pc' = "done"
  /\ UNCHANGED <<op, sysVars, labelVars, embeddings, options, centroids, iter, stop, centroidCounts,
                 previousCentroids, sampled, bicScores, bestK, bestBIC, kTry,
                 searchVars>>

NextMiniBatch == MiniBatchStart \/ MiniBatchIterate \/ MiniBatchReturn

SpecMiniBatch == InitMiniBatch /\ [][NextMiniBatch]_vars

(***************************************************************************)
(* Math.sqrt, Math.log and Math.exp in fixed point.  A square root is      *)
(* held in units of 1/DistScale, a logarithm in units of 1/1000 and an     *)
(* exponential or a probability in units of 1/ProbScale.  The quotient     *)
(* e / sumExp of softmax is rounded to the nearest unit, as the division   *)
(* of two doubles is rounded to the nearest double.  A value of 0 units    *)
(* may still be a positive double: whether the double itself is 0 is held  *)
(* beside it (Math.exp returns 0 below -745.13, the underflow of           *)
(* binary64).                                                              *)
(***************************************************************************)
DistScale == 4
ProbScale == 10000
ExpUnderflow == 745

RECURSIVE ISqrt(_)
ISqrt(x) == IF x < 2 THEN x
            ELSE LET r == 2 * ISqrt(x \div 4) IN
                 IF (r + 1) * (r + 1) <= x THEN r + 1 ELSE r

\* Math.sqrt of a squared distance, in units of 1/DistScale.
sqrtFix(sq) == ISqrt(sq.n * sq.d * DistScale * DistScale) \div sq.d

RECURSIVE Pow2(_)
Pow2(e) == IF e = 0 THEN 1 ELSE 2 * Pow2(e - 1)

RECURSIVE FloorLog2(_)
FloorLog2(a) == IF a < 2 THEN 0 ELSE 1 + FloorLog2(a \div 2)

\* The fractional bits of log2 of a mantissa in [4096, 8192), by squaring.
RECURSIVE Log2Frac(_, _)
Log2Frac(mant, bits) ==
  IF bits = 0 THEN 0
  ELSE LET sq == (mant * mant) \div 4096 IN
       IF sq >= 8192 THEN Pow2(bits - 1) + Log2Frac(sq \div 2, bits - 1)
       ELSE Log2Frac(sq, bits - 1)

\* Math.log(a) for an integer a >= 1, in units of 1/1000.
lnMilli(a) ==
  LET e == FloorLog2(a)
      mant == IF e > 12 THEN a \div Pow2(e - 12) ELSE a * Pow2(12 - e)
  IN ((e * 1024 + Log2Frac(mant, 10)) * 693) \div 1024

\* Math.exp(x) for x = -u / DistScale, u >= 0, in units of 1/ProbScale.
ExpWhole == <<10000, 3678, 1353, 497, 183, 67, 24, 9, 3, 1>>
ExpQuarter == <<10000, 7788, 6065, 4723>>
expFix(u) ==
  [v |-> IF u \div DistScale >= Len(ExpWhole) THEN 0
         ELSE (ExpWhole[(u \div DistScale) + 1] * ExpQuarter[(u % DistScale) + 1])
                 \div ProbScale,
   zero |-> u > ExpUnderflow * DistScale]

\* softmax(distances, temperature): scores = -d / temperature, shifted by the
\* largest score, exponentiated and divided by their sum.
softmax(distances, temperature) ==
  LET scores == [j \in 1..Len(distances) |->
                   -((sqrtFix(distances[j]) * temperature.d) \div temperature.n)]
      maxScore == CHOOSE m \in {scores[j] : j \in 1..Len(scores)} :
                    \A j \in 1..Len(scores) : scores[j] <= m
      expScores == [j \in 1..Len(scores) |-> expFix(maxScore - scores[j])]
      sumExp == SumSeq([j \in 1..Len(scores) |-> Num(expScores[j].v)]).n
  IN [j \in 1..Len(scores) |->
        [v |-> (2 * expScores[j].v * ProbScale + sumExp) \div (2 * sumExp),
         zero |-> expScores[j].zero]]

(***************************************************************************)
(* BIC.                                                                    *)
(***************************************************************************)
LnEpsilonMilli == -23026   \* Math.log(1e-10), in units of 1/1000

\* calculateBIC, in units of 1/1000:
\* n * Math.log((rss + 1e-10) / n) + numParams * Math.log(n).
calculateBIC(vectors, cs, asg) ==
  LET n == Len(vectors)
      numClusters == Len(cs)
      dims == Len(vectors[1])
      rss == SumSeq([i \in 1..n |-> euclideanDistance(vectors[i], cs[asg[i] + 1])])
      numParams == numClusters * dims + (numClusters - 1)
      logTerm == IF rss.n = 0 THEN LnEpsilonMilli - lnMilli(n)
                 ELSE lnMilli(rss.n) - lnMilli(rss.d) - lnMilli(n)
  IN n * logTerm + numParams * lnMilli(n)

(***************************************************************************)
(* Soft clustering.                                                        *)
(***************************************************************************)
\* The raw soft assignments over given centroids: one per (vector, cluster).
rawSoftAssignments(vectors, cs, k, temperature) ==
  [x \in 1..(Len(vectors) * k) |->
     LET i == ((x - 1) \div k) + 1
         j == (x - 1) % k
         probs == softmax([c \in 1..Len(cs) |-> euclideanDistance(vectors[i], cs[c])],
                          temperature)
     IN [vectorIdx |-> i, clusterId |-> j, probability |-> probs[j + 1]]]

\* Every value softCluster(vectors, k, maxIterations) can return.
softCluster(vectors, k, maxIterations, temperature) ==
  {[centroids |-> r.centroids,
    softAssignments |-> rawSoftAssignments(vectors, r.centroids, k, temperature)] :
     r \in kMeans(vectors, k, maxIterations)}

\* The filter with > for >=.
filterStrictlyAbove(rawAssignments, minProbability) ==
  SelectSeq(rawAssignments, LAMBDA a : a.probability.v > minProbability)

\* No filter at all.
keepAllAssignments(rawAssignments, minProbability) == rawAssignments

\* rawAssignments.filter((a) => a.probability >= minProbability)
filterByMinProbability(rawAssignments, minProbability) ==
  SelectSeq(rawAssignments, LAMBDA a : a.probability.v >= minProbability)

dimensionMismatch(vectors) ==
  \E i \in 2..Len(vectors) : Len(vectors[i]) # Len(vectors[1])

MinProbabilities == {0, 100, 5000}   \* 0, the default 0.01, and 0.5

InitSoftOver(vectors, maxPoints, useBICs) ==
  /\ op = "clusterSoft"
  /\ \E e \in UNION {[1..n -> vectors] : n \in 0..maxPoints} :
        embeddings = [i \in 1..Len(e) |-> Vec(e[i])]
  /\ \E mc \in 0..MaxClusters, mp \in MinProbabilities, b \in useBICs :
        options = [maxClusters |-> mc, minProbability |-> mp, useBIC |-> b,
                   maxIterations |-> DefaultMaxIterations]
  /\ InitCommon

InitSoft == InitSoftOver(VectorsSoft, MaxPointsMB, BOOLEAN)

\* Calls with useBIC: false, on up to MaxPointsSoft nearby points.
InitSoftDirect == InitSoftOver(VectorsNear, MaxPointsSoft, {FALSE})

(***************************************************************************)
(* ClusteringService.clusterSoft, in steps: the edge cases and the         *)
(* dimension check, each k of the BIC loop, and the final soft clustering. *)
(***************************************************************************)
maxKOf(vectors, opts) == Min(opts.maxClusters, Len(vectors))

SoftStart ==
  /\ op = "clusterSoft" /\ pc = "start"
  /\ IF Len(embeddings) = 0
     THEN /\ result' = [tag |-> "SoftClusterResult", numClusters |-> 0,
                        softAssignments |-> <<>>, centroids |-> <<>>,
                        bicScores |-> <<>>, selectedK |-> None]
          /\ pc' = "done"
          /\ UNCHANGED <<bestK, kTry>>
     ELSE IF Len(embeddings) = 1
     THEN /\ result' = [tag |-> "SoftClusterResult", numClusters |-> 1,
                        softAssignments |->
                          <<[vectorIdx |-> 1, clusterId |-> 0,
                             probability |-> [v |-> ProbScale, zero |-> FALSE]]>>,
                        centroids |-> <<embeddings[1]>>,
                        bicScores |-> <<>>, selectedK |-> None]
          /\ pc' = "done"
          /\ UNCHANGED <<bestK, kTry>>
     ELSE IF dimensionMismatch(embeddings)
     THEN /\ result' = ClusteringError
          /\ pc' = "done"
          /\ UNCHANGED <<bestK, kTry>>
     ELSE IF options.useBIC /\ maxKOf(embeddings, options) > 1
     THEN /\ kTry' = 1
          /\ pc' = "bic"
          /\ UNCHANGED <<bestK, result>>
     ELSE /\ bestK' = maxKOf(embeddings, options)
          /\ pc' = "soft"
          /\ UNCHANGED <<kTry, result>>
  /\ UNCHANGED <<op, sysVars, labelVars, embeddings, options, centroids, assignments, iter, stop,
                 centroidCounts, previousCentroids, sampled, bicScores, bestBIC,
                 searchVars>>

\* The BIC loop keeping the last k it tested.
SoftBICKeepLast ==
  /\ op = "clusterSoft" /\ pc = "bic"
  /\ IF kTry > maxKOf(embeddings, options)
     THEN /\ pc' = "soft"
          /\ UNCHANGED <<bicScores, bestK, bestBIC, kTry>>
     ELSE /\ IF invalidInput(embeddings, kTry)
             THEN UNCHANGED <<bicScores, bestK, bestBIC>>
             ELSE \E r \in kMeans(embeddings, kTry, options.maxIterations) :
                    LET bic == Num(calculateBIC(embeddings, r.centroids, r.assignments))
                    IN /\ bicScores' = Append(bicScores, [k |-> kTry, bic |-> bic])
                       /\ bestBIC' = bic
                       /\ bestK' = kTry
          /\ kTry' = kTry + 1
          /\ UNCHANGED pc
  /\ UNCHANGED <<op, sysVars, labelVars, embeddings, options, centroids, assignments, iter, stop,
                 centroidCounts, previousCentroids, sampled, result, searchVars>>

\* One pass of the BIC loop: for (let k = minK; k <= maxK; k++) { try ... }
SoftBIC ==
  /\ op = "clusterSoft" /\ pc = "bic"
  /\ IF kTry > maxKOf(embeddings, options)
     THEN /\ pc' = "soft"
          /\ UNCHANGED <<bicScores, bestK, bestBIC, kTry>>
     ELSE /\ IF invalidInput(embeddings, kTry)
             THEN UNCHANGED <<bicScores, bestK, bestBIC>>
             ELSE \E r \in kMeans(embeddings, kTry, options.maxIterations) :
                    LET bic == Num(calculateBIC(embeddings, r.centroids, r.assignments))
                    IN /\ bicScores' = Append(bicScores, [k |-> kTry, bic |-> bic])
                       /\ IF Less(bic, bestBIC)
                          THEN bestBIC' = bic /\ bestK' = kTry
                          ELSE UNCHANGED <<bestBIC, bestK>>
          /\ kTry' = kTry + 1
          /\ UNCHANGED pc
  /\ UNCHANGED <<op, sysVars, labelVars, embeddings, options, centroids, assignments, iter, stop,
                 centroidCounts, previousCentroids, sampled, result, searchVars>>

\* softCluster at bestK, the minProbability filter and the result.
SoftCluster ==
  /\ op = "clusterSoft" /\ pc = "soft"
  /\ IF invalidInput(embeddings, bestK)
     THEN /\ result' = ClusteringError
          /\ UNCHANGED centroids
     ELSE \E sc \in softCluster(embeddings, bestK, options.maxIterations,
                                DefaultTemperature) :
            /\ centroids' = sc.centroids
            /\ result' = [tag |-> "SoftClusterResult", numClusters |-> bestK,
                          softAssignments |->
                            filterByMinProbability(sc.softAssignments,
                                                   options.minProbability),
                          centroids |-> sc.centroids,
                          bicScores |-> IF options.useBIC THEN bicScores ELSE <<>>,
                          selectedK |-> IF options.useBIC THEN bestK ELSE None]
  /\ pc' = "done"
  /\ UNCHANGED <<op, sysVars, labelVars, embeddings, options, assignments, iter, stop, centroidCounts,
                 previousCentroids, sampled, bicScores, bestK, bestBIC, kTry,
                 searchVars>>

NextSoft == SoftStart \/ SoftBIC \/ SoftCluster

SpecSoft == InitSoft /\ [][NextSoft]_vars

NextSoftDirect == SoftStart \/ SoftCluster

SpecSoftDirect == InitSoftDirect /\ [][NextSoftDirect]_vars

(***************************************************************************)
(* The clustering service: the hard clusterers, and all three entry points.*)
(***************************************************************************)
InitHard == InitCluster \/ InitMiniBatch
NextHard == NextCluster \/ NextMiniBatch
SpecHard == InitHard /\ [][NextHard]_vars

Init == InitCluster \/ InitMiniBatch \/ InitSoft
Next == NextCluster \/ NextMiniBatch \/ NextSoft
Spec == Init /\ [][Next]_vars

(***************************************************************************)
(* PDFLibrary.search.  A score is held in units of 1/ScoreScale.  The      *)
(* store behind the Database service holds a chunks table (store.chunks:   *)
(* the content length of each chunk) and answers a query with a list of    *)
(* hits on distinct chunks, in any order and of any length, or fails with  *)
(* a DatabaseError.                                                        *)
(***************************************************************************)
ScoreScale == 100
MaxLimit == 3         \* options.limit ranges over -1 .. MaxLimit

\* (docId, page, chunkIndex) of the chunks in the store.
Chunks == {<<"d1", 1, 0>>, <<"d1", 1, 1>>, <<"d2", 1, 0>>}
VectorScores == {5, 50, 90}
FtsScores == {10, 70}

SearchResult(chunk, score, matchType) ==
  [docId |-> chunk[1], page |-> chunk[2], chunkIndex |-> chunk[3],
   score |-> score, matchType |-> matchType]

\* A comparison of the document ids alone.
sameDocument(r, h) == r.docId = h.docId

sameChunk(r, h) ==
  r.docId = h.docId /\ r.page = h.page /\ r.chunkIndex = h.chunkIndex

\* The hit lists a query of the store can answer with.
rows(scores, matchType) ==
  LET stored == DOMAIN store.chunks IN
  UNION {{[i \in 1..n |-> SearchResult(c[i], sc[i], matchType)] :
            c \in {x \in [1..n -> stored] : \A i, j \in 1..n : i # j => x[i] # x[j]},
            sc \in [1..n -> scores]} :
         n \in 0..Cardinality(stored)}

\* db.vectorSearch(queryEmbedding, options): matchType "vector".
vectorSearch(opts) == rows(store.vectorScores, "vector")

\* db.ftsSearch(query, options): matchType "fts".
ftsSearch(opts) == rows(store.ftsScores, "fts")

\* results.find(sameChunk): the index of the first match, 0 when none.
findIndex(rs, h) ==
  IF \E i \in 1..Len(rs) : sameChunk(rs[i], h)
  THEN CHOOSE i \in 1..Len(rs) :
         sameChunk(rs[i], h) /\ \A j \in 1..(i - 1) : ~sameChunk(rs[j], h)
  ELSE 0

\* A boost without the cap at 1.
boostScoreUncapped(score) == (score * 12) \div 10

\* Math.min(1, exists.score * 1.2)
boostScore(score) == Min(ScoreScale, (score * 12) \div 10)

\* A merge that pushes every keyword hit.
mergeFtsAppend(rs, fts) == rs \o fts

\* The merge loop: for (const fts of ftsResults) { find; push or boost }.
RECURSIVE mergeFts(_, _)
mergeFts(rs, fts) ==
  IF fts = <<>> THEN rs
  ELSE LET idx == findIndex(rs, Head(fts)) IN
       IF idx = 0 THEN mergeFts(Append(rs, Head(fts)), Tail(fts))
       ELSE mergeFts([rs EXCEPT ![idx] = [rs[idx] EXCEPT
                                            !.score = boostScore(rs[idx].score),
                                            !.matchType = "hybrid"]],
                     Tail(fts))

\* An insertion that puts a hit before the hits of equal score.
RECURSIVE insertBeforeEqual(_, _)
insertBeforeEqual(sorted, h) ==
  IF sorted = <<>> THEN <<h>>
  ELSE IF Head(sorted).score > h.score
       THEN <<Head(sorted)>> \o insertBeforeEqual(Tail(sorted), h)
       ELSE <<h>> \o sorted

\* results.sort((a, b) => b.score - a.score): stable, descending by score.
RECURSIVE insertByScore(_, _)
insertByScore(sorted, h) ==
  IF sorted = <<>> THEN <<h>>
  ELSE IF Head(sorted).score >= h.score
       THEN <<Head(sorted)>> \o insertByScore(Tail(sorted), h)
       ELSE <<h>> \o sorted

RECURSIVE sortByScore(_)
sortByScore(rs) ==
  IF rs = <<>> THEN <<>>
  ELSE insertByScore(sortByScore(SubSeq(rs, 1, Len(rs) - 1)), rs[Len(rs)])

\* Array.prototype.slice(0, end).
slice(rs, end) ==
  LET last == IF end < 0 THEN IF Len(rs) + end < 0 THEN 0 ELSE Len(rs) + end
              ELSE Min(end, Len(rs))
  IN SubSeq(rs, 1, last)

\* The sort without the cut.
sortOnly(rs, limit) == sortByScore(rs)

sortAndLimit(rs, limit) == slice(sortByScore(rs), limit)

DatabaseError == [tag |-> "DatabaseError"]
OllamaError == [tag |-> "OllamaError"]

\* A collaborator call, as logged in calls.
Call(fn) == [fn |-> fn, docId |-> "", chunkIndex |-> 0]
CallExpand(docId, chunkIndex) ==
  [fn |-> "getExpandedContext", docId |-> docId, chunkIndex |-> chunkIndex]

InitSearch ==
  /\ op = "search"
  /\ embeddings = <<>>
  /\ \E h \in BOOLEAN, l \in -1..MaxLimit :
       options = [hybrid |-> h, limit |-> l, expandChars |-> 0]
  /\ store = [chunks |-> [c \in Chunks |-> 1],
              vectorScores |-> VectorScores, ftsScores |-> FtsScores]
  /\ InitCall /\ NoLabelCall

\* const healthCheck = yield* Effect.either(ollama.checkHealth())
SearchHealth ==
  /\ op = "search" /\ pc = "start"
  /\ healthCheck' \in {"Right", "Left"}
  /\ calls' = Append(calls, Call("checkHealth"))
  /\ pc' = "vector"
  /\ UNCHANGED <<op, sysVars, labelVars, clusterVars, result, vectorResults, ftsResults, results,
                 finalResults, store, expandedRanges, expandIdx, expandedOut>>

\* if (healthCheck._tag === "Right") { embed; vectorSearch; push }
SearchVector ==
  /\ op = "search" /\ pc = "vector"
  /\ IF healthCheck = "Right"
     THEN \/ /\ result' = OllamaError
             /\ calls' = Append(calls, Call("embed"))
             /\ pc' = "done"
             /\ UNCHANGED <<vectorResults, results>>
          \/ /\ result' = DatabaseError
             /\ calls' = calls \o <<Call("embed"), Call("vectorSearch")>>
             /\ pc' = "done"
             /\ UNCHANGED <<vectorResults, results>>
          \/ /\ \E vr \in vectorSearch(options) :
                  /\ vectorResults' = vr
                  /\ results' = results \o vr
             /\ calls' = calls \o <<Call("embed"), Call("vectorSearch")>>
             /\ pc' = "fts"
             /\ UNCHANGED result
     ELSE /\ pc' = "fts"
          /\ UNCHANGED <<vectorResults, results, result, calls>>
  /\ UNCHANGED <<op, sysVars, labelVars, clusterVars, healthCheck, ftsResults, finalResults, store,
                 expandedRanges, expandIdx, expandedOut>>

\* if (hybrid || healthCheck._tag === "Left") { ftsSearch; merge }
SearchFts ==
  /\ op = "search" /\ pc = "fts"
  /\ IF options.hybrid \/ healthCheck = "Left"
     THEN \/ /\ result' = DatabaseError
             /\ calls' = Append(calls, Call("ftsSearch"))
             /\ pc' = "done"
             /\ UNCHANGED <<ftsResults, results>>
          \/ /\ \E fr \in ftsSearch(options) :
                  /\ ftsResults' = fr
                  /\ results' = mergeFts(results, fr)
             /\ calls' = Append(calls, Call("ftsSearch"))
             /\ pc' = "sort"
             /\ UNCHANGED result
     ELSE /\ pc' = "sort"
          /\ UNCHANGED <<ftsResults, results, result, calls>>
  /\ UNCHANGED <<op, sysVars, labelVars, clusterVars, healthCheck, vectorResults, finalResults,
                 store, expandedRanges, expandIdx, expandedOut>>

\* results.sort(...).slice(0, limit); returned as it is unless expandChars > 0.
SearchSortLimit ==
  /\ op = "search" /\ pc = "sort"
  /\ finalResults' = sortAndLimit(results, options.limit)
  /\ IF options.expandChars > 0
     THEN pc' = "expand" /\ UNCHANGED result
     ELSE /\ result' = [tag |-> "SearchResults", hits |-> finalResults']
          /\ pc' = "done"
  /\ UNCHANGED <<op, sysVars, labelVars, clusterVars, healthCheck, vectorResults, ftsResults, results,
                 store, calls, expandedRanges, expandIdx, expandedOut>>

(***************************************************************************)
(* Context expansion.  An expanded content is held as the run of chunks it *)
(* joins and its length: [from, to, length].                               *)
(***************************************************************************)
MaxChunkLength == 3   \* a chunk's content has 1 .. MaxChunkLength characters
ExpandChars == {0, 3, 5}
ExpandChunks == {<<"d1", 1, 0>>, <<"d1", 1, 1>>, <<"d1", 1, 2>>}
ExpandVectorScores == {50, 90}
ExpandFtsScores == {10}

\* SELECT chunk_index, content FROM chunks WHERE doc_id = $1 AND chunk_index = $2
chunkRows(docId, chunkIndex) ==
  {c \in DOMAIN store.chunks : c[1] = docId /\ c[3] = chunkIndex}

\* rows[0].content.length
contentLength(docId, chunkIndex) ==
  store.chunks[CHOOSE c \in chunkRows(docId, chunkIndex) : TRUE]

\* totalContent.length + content.length > maxChars * 1.2
overBudget(total, len, maxChars) == 10 * (total + len) > 12 * maxChars

\* The loop "Expand before (lower chunk indices)".
RECURSIVE expandBefore(_, _, _, _)
expandBefore(st, docId, beforeIdx, maxChars) ==
  IF /\ st.length < maxChars /\ beforeIdx >= 0
     /\ chunkRows(docId, beforeIdx) # {}
     /\ ~overBudget(st.length, contentLength(docId, beforeIdx), maxChars)
  THEN expandBefore([st EXCEPT
                       !.length = contentLength(docId, beforeIdx) + 1 + st.length,
                       !.from = beforeIdx],
                    docId, beforeIdx - 1, maxChars)
  ELSE st

\* The loop "Expand after (higher chunk indices)".
RECURSIVE expandAfter(_, _, _, _)
expandAfter(st, docId, afterIdx, maxChars) ==
  IF /\ st.length < maxChars
     /\ chunkRows(docId, afterIdx) # {}
     /\ ~overBudget(st.length, contentLength(docId, afterIdx), maxChars)
  THEN expandAfter([st EXCEPT
                      !.length = st.length + 1 + contentLength(docId, afterIdx),
                      !.to = afterIdx],
                   docId, afterIdx + 1, maxChars)
  ELSE st

\* db.getExpandedContext(docId, chunkIndex, { maxChars }), direction "both".
getExpandedContext(docId, chunkIndex, maxChars) ==
  LET target == [from |-> chunkIndex, to |-> chunkIndex,
                 length |-> IF chunkRows(docId, chunkIndex) = {} THEN 0
                            ELSE contentLength(docId, chunkIndex)]
      window == IF chunkRows(docId, chunkIndex) = {} THEN target
                ELSE expandAfter(expandBefore(target, docId, chunkIndex - 1, maxChars),
                                 docId, chunkIndex + 1, maxChars)
  IN [content |-> window, startIndex |-> window.from, endIndex |-> window.to]

\* new SearchResult({ ...result, expandedContent, expandedRange })
withExpansion(r, content, start, end) ==
  [docId |-> r.docId, page |-> r.page, chunkIndex |-> r.chunkIndex,
   score |-> r.score, matchType |-> r.matchType,
   expandedContent |-> content, expandedRange |-> [start |-> start, end |-> end]]

\* expandedRanges.get(key) covers the hit.
covered(r) ==
  /\ r.docId \in DOMAIN expandedRanges
  /\ r.chunkIndex >= expandedRanges[r.docId].start
  /\ r.chunkIndex <= expandedRanges[r.docId].end

InitExpand ==
  /\ op = "search"
  /\ embeddings = <<>>
  /\ \E e \in ExpandChars :
       options = [hybrid |-> FALSE, limit |-> MaxLimit, expandChars |-> e]
  /\ \E len \in [ExpandChunks -> 1..MaxChunkLength] :
       store = [chunks |-> len, vectorScores |-> ExpandVectorScores,
                ftsScores |-> ExpandFtsScores]
  /\ InitCall /\ NoLabelCall

\* One element of Effect.all(finalResults.map(...)): reuse the cached window
\* of the document, or fetch one and cache it.
SearchExpand ==
  /\ op = "search" /\ pc = "expand" /\ expandIdx < Len(finalResults)
  /\ LET r == finalResults[expandIdx + 1] IN
     IF covered(r)
     THEN LET existing == expandedRanges[r.docId] IN
          /\ expandedOut' = Append(expandedOut,
               withExpansion(r, existing.content, existing.start, existing.end))
          /\ expandIdx' = expandIdx + 1
          /\ UNCHANGED <<pc, result, calls, expandedRanges>>
     ELSE \/ /\ result' = DatabaseError
             /\ calls' = Append(calls, CallExpand(r.docId, r.chunkIndex))
             /\ pc' = "done"
             /\ UNCHANGED <<expandedRanges, expandIdx, expandedOut>>
          \/ LET expanded == getExpandedContext(r.docId, r.chunkIndex,
                                                options.expandChars) IN
             /\ calls' = Append(calls, CallExpand(r.docId, r.chunkIndex))
             /\ expandedRanges' =
                  [d \in DOMAIN expandedRanges \cup {r.docId} |->
                     IF d = r.docId
                     THEN [start |-> expanded.startIndex, end |-> expanded.endIndex,
                           content |-> expanded.content]
                     ELSE expandedRanges[d]]
             /\ expandedOut' = Append(expandedOut,
                  withExpansion(r, expanded.content, expanded.startIndex,
                                expanded.endIndex))
             /\ expandIdx' = expandIdx + 1
             /\ UNCHANGED <<pc, result>>
  /\ UNCHANGED <<op, sysVars, labelVars, clusterVars, healthCheck, vectorResults, ftsResults, results,
                 finalResults, store>>

\* finalResults = yield* Effect.all(...); return finalResults
SearchExpandReturn ==
  /\ op = "search" /\ pc = "expand" /\ expandIdx = Len(finalResults)
  /\ finalResults' = expandedOut
  /\ result' = [tag |-> "SearchResults", hits |-> expandedOut]
  /\ pc' = "done"
  /\ UNCHANGED <<op, sysVars, labelVars, clusterVars, healthCheck, vectorResults, ftsResults, results,
                 store, calls, expandedRanges, expandIdx, expandedOut>>

NextSearch == SearchHealth \/ SearchVector \/ SearchFts \/ SearchSortLimit

SpecSearch == InitSearch /\ [][NextSearch]_vars

NextExpand == NextSearch \/ SearchExpand \/ SearchExpandReturn

SpecExpand == InitExpand /\ [][NextExpand]_vars

(***************************************************************************)
(* Strings.  A string is held as a sequence of runs [ch, n]: n >= 1 copies *)
(* of the character ch.  "a" stands for any character that is neither      *)
(* white space nor a sentence terminator.                                  *)
(***************************************************************************)
Terminators == {".", "!", "?"}

RECURSIVE strLen(_)
strLen(str) == IF str = <<>> THEN 0 ELSE Head(str).n + strLen(Tail(str))

\* str.split(/[.!?]/)[0]: the text before the first terminator.
RECURSIVE firstSentence(_)
firstSentence(str) ==
  IF str = <<>> \/ Head(str).ch \in Terminators THEN <<>>
  ELSE <<Head(str)>> \o firstSentence(Tail(str))

\* str.slice(0, end), end >= 0.
RECURSIVE sliceChars(_, _)
sliceChars(str, end) ==
  IF str = <<>> \/ end <= 0 THEN <<>>
  ELSE IF Head(str).n >= end THEN <<[ch |-> Head(str).ch, n |-> end]>>
  ELSE <<Head(str)>> \o sliceChars(Tail(str), end - Head(str).n)

(***************************************************************************)
(* ClusterConceptMapperImpl.mapCluster.  A similarity is held in units of  *)
(* 1/SimScale, rounded toward zero, or is NaN (0 / 0).                     *)
(***************************************************************************)
MaxConcepts == 2       \* concepts.length ranges over 0 .. MaxConcepts
MaxRuns == 2           \* a cluster summary has at most MaxRuns runs
SimScale == 1000
LabelLength == 50

MapperVectors == {<<1, 0>>, <<1, 1>>, <<0, 1>>, <<-1, 0>>, <<0, 0>>, <<1>>}
Thresholds == {0, 800}
SummaryRuns == {[ch |-> "a", n |-> 30], [ch |-> ".", n |-> 1]}

RECURSIVE dotFrom(_, _, _)
dotFrom(a, b, i) ==
  IF i > Len(a) THEN 0 ELSE a[i] * b[i] + dotFrom(a, b, i + 1)

NaNSimilarity == [nan |-> TRUE, v |-> 0]

\* cosineSimilarity(a, b)
cosineSimilarity(a, b) ==
  IF Len(a) # Len(b) THEN [nan |-> FALSE, v |-> 0]
  ELSE LET dotProduct == dotFrom(a, b, 1)
           normA == dotFrom(a, a, 1)
           normB == dotFrom(b, b, 1)
       IN IF normA * normB = 0 THEN NaNSimilarity
          ELSE LET q == ISqrt((dotProduct * dotProduct * SimScale * SimScale)
                               \div (normA * normB))
               IN [nan |-> FALSE, v |-> IF dotProduct < 0 THEN -q ELSE q]

\* similarity >= threshold, and similarity > other, in JavaScript.
atLeast(similarity, threshold) == ~similarity.nan /\ similarity.v >= threshold
greater(similarity, other) ==
  ~similarity.nan /\ ~other.nan /\ similarity.v > other.v

\* A loop body that keeps the first concept that reaches the threshold.
keepFirstMatch(best, id, similarity, threshold) ==
  IF atLeast(similarity, threshold) /\ best = NullMatch
  THEN [id |-> id, similarity |-> similarity]
  ELSE best

\* The body of "for (const concept of concepts)".
updateBestMatch(best, id, similarity, threshold) ==
  IF atLeast(similarity, threshold)
       /\ (best = NullMatch \/ greater(similarity, best.similarity))
  THEN [id |-> id, similarity |-> similarity]
  ELSE best

\* cluster.summary.split(/[.!?]/)[0].slice(0, 50)
suggestedLabelOf(summary) == sliceChars(firstSentence(summary), LabelLength)

Summaries == UNION {[1..n -> SummaryRuns] : n \in 0..MaxRuns}

InitMap ==
  /\ op = "mapCluster"
  /\ embeddings = <<>>
  /\ \E t \in Thresholds : options = [threshold |-> t]
  /\ InitCall /\ NoSearchCall
  /\ chunks = <<>>
  /\ cluster \in [id : {7}, summary : Summaries, centroid : MapperVectors]
  /\ concepts \in UNION {[1..n -> [id : {"c1", "c2"}, embedding : MapperVectors]] :
                           n \in 0..MaxConcepts}
  /\ \A i, j \in 1..Len(concepts) : i # j => concepts[i].id # concepts[j].id

MapperError == [tag |-> "ClusterConceptMapperError"]

\* One pass of "for (const concept of concepts)".
MapConcept ==
  /\ op = "mapCluster" /\ pc = "start" /\ conceptIdx < Len(concepts)
  /\ LET concept == concepts[conceptIdx + 1]
         similarity == cosineSimilarity(cluster.centroid, concept.embedding)
     IN bestMatch' = updateBestMatch(bestMatch, concept.id, similarity,
                                     options.threshold)
  /\ conceptIdx' = conceptIdx + 1
  /\ UNCHANGED <<op, sysVars, pc, result, clusterVars, searchVars, cluster, concepts,
                 chunks, llm>>

\* if (bestMatch) return { matched: true, ... }; return { matched: false, ... }
MapReturn ==
  /\ op = "mapCluster" /\ pc = "start" /\ conceptIdx = Len(concepts)
  /\ result' = IF bestMatch # NullMatch
               THEN [tag |-> "MapResult", clusterId |-> cluster.id, matched |-> TRUE,
                     conceptId |-> bestMatch.id, confidence |-> bestMatch.similarity]
               ELSE [tag |-> "MapResult", clusterId |-> cluster.id, matched |-> FALSE,
                     suggestedLabel |-> suggestedLabelOf(cluster.summary)]
  /\ pc' = "done"
  /\ UNCHANGED <<op, sysVars, clusterVars, searchVars, labelVars>>

NextMap == MapConcept \/ MapReturn

SpecMap == InitMap /\ [][NextMap]_vars

(***************************************************************************)
(* ClusterSummarizerImpl.summarize.  A summary is held as the template it  *)
(* was built from and the sentences put into it.                           *)
(***************************************************************************)
MaxChunks == 4         \* chunks.length ranges over 0 .. MaxChunks
MinSentenceLength == 10
MaxSentences == 3

\* Contents: a sentence of 11 characters; one of 10 followed by a space; one
\* of 11 after a space, with a second sentence; and a chunk that starts with
\* a terminator.
Contents ==
  {<<[ch |-> "a", n |-> 11]>>,
   <<[ch |-> "a", n |-> 10], [ch |-> " ", n |-> 1]>>,
   <<[ch |-> " ", n |-> 1], [ch |-> "a", n |-> 11], [ch |-> ".", n |-> 1],
     [ch |-> "a", n |-> 30]>>,
   <<[ch |-> ".", n |-> 1], [ch |-> "a", n |-> 30]>>}

\* String.prototype.trim
RECURSIVE trimStart(_)
trimStart(str) ==
  IF str # <<>> /\ Head(str).ch = " " THEN trimStart(Tail(str)) ELSE str

RECURSIVE trimEnd(_)
trimEnd(str) ==
  IF str # <<>> /\ str[Len(str)].ch = " "
  THEN trimEnd(SubSeq(str, 1, Len(str) - 1)) ELSE str

trim(str) == trimEnd(trimStart(str))

EmptySummary ==
  [template |-> "Empty cluster with no documents.", sentences |-> <<>>]
FragmentsSummary ==
  [template |-> "Cluster contains very short text fragments.", sentences |-> <<>>]
CoversSummary(sentences) ==
  [template |-> "This cluster covers: ${sentences.join('. ')}.",
   sentences |-> sentences]
ObjectSummary == [template |-> "object.summary", sentences |-> <<>>]

\* options.maxChunks ?? chunks.length
maxChunksOf(cs, opts) ==
  IF "maxChunks" \in DOMAIN opts THEN opts.maxChunks ELSE Len(cs)

\* chunksToSummarize.map(first sentence, trimmed).filter(length > 10)
longSentences(cs) ==
  SelectSeq([i \in 1..Len(cs) |-> trim(firstSentence(cs[i]))],
            LAMBDA sentence : strLen(sentence) > MinSentenceLength)

\* An extractive summary of every long first sentence.
extractiveOfAllSentences(cs, opts) ==
  IF Len(cs) = 0
  THEN [tag |-> "ClusterSummary", clusterId |-> opts.clusterId,
        summary |-> EmptySummary, chunkCount |-> 0]
  ELSE LET sentences == longSentences(slice(cs, maxChunksOf(cs, opts))) IN
       [tag |-> "ClusterSummary", clusterId |-> opts.clusterId,
        summary |-> IF Len(sentences) > 0 THEN CoversSummary(sentences)
                    ELSE FragmentsSummary,
        chunkCount |-> Len(cs)]

generateExtractiveSummary(cs, opts) ==
  IF Len(cs) = 0
  THEN [tag |-> "ClusterSummary", clusterId |-> opts.clusterId,
        summary |-> EmptySummary, chunkCount |-> 0]
  ELSE LET sentences == slice(longSentences(slice(cs, maxChunksOf(cs, opts))),
                              MaxSentences)
       IN [tag |-> "ClusterSummary", clusterId |-> opts.clusterId,
           summary |-> IF Len(sentences) > 0 THEN CoversSummary(sentences)
                       ELSE FragmentsSummary,
           chunkCount |-> Len(cs)]

InitSummarize ==
  /\ op = "summarize"
  /\ embeddings = <<>>
  /\ options \in [clusterId : {7}] \cup [clusterId : {7}, maxChunks : {-1, 0, 2}]
  /\ InitCall /\ NoSearchCall
  /\ cluster = NoCluster /\ concepts = <<>>
  /\ chunks \in UNION {[1..n -> Contents] : n \in 0..MaxChunks}

\* generateAbstractiveSummary up to the call of generateObject.
SummarizeStart ==
  /\ op = "summarize" /\ pc = "start"
  /\ IF Len(chunks) = 0
     THEN /\ result' = [tag |-> "ClusterSummary", clusterId |-> options.clusterId,
                        summary |-> EmptySummary, chunkCount |-> 0]
          /\ pc' = "done"
     ELSE pc' = "generateObject" /\ UNCHANGED result
  /\ UNCHANGED <<op, sysVars, clusterVars, searchVars, labelVars>>

\* try { await generateObject(...) } catch { return generateExtractiveSummary }
SummarizeGenerate ==
  /\ op = "summarize" /\ pc = "generateObject"
  /\ \/ /\ llm' = "resolved"
        /\ result' = [tag |-> "ClusterSummary", clusterId |-> options.clusterId,
                      summary |-> ObjectSummary, chunkCount |-> Len(chunks),
                      keyTopics |-> <<"object.keyTopics">>,
                      representativeQuote |-> "object.representativeQuote"]
     \/ /\ llm' = "rejected"
        /\ result' = generateExtractiveSummary(chunks, options)
  /\ pc' = "done"
  /\ UNCHANGED <<op, sysVars, clusterVars, searchVars, cluster, concepts, bestMatch,
                 conceptIdx, chunks>>

NextSummarize == SummarizeStart \/ SummarizeGenerate

SpecSummarize == InitSummarize /\ [][NextSummarize]_vars


(***************************************************************************)
(* Properties of the clustering service.                                   *)
(***************************************************************************)
\* The members of cluster c (0-based) under the returned assignments.
membersOf(c) ==
  clusterVectors(embeddings,
                 [i \in 1..Len(result.assignments) |-> result.assignments[i].clusterId],
                 c)

validArguments == Len(embeddings) > 0 /\ 1 <= options.k /\ options.k <= Len(embeddings)

\* C1: a call cluster(points, k, maxIterations) with non-empty points and
\* 1 <= k <= points.length returns exactly k clusters with ids 0 .. k-1, an
\* empty cluster kept with size 0, and exactly one assignment per input
\* point, each with a cluster id in [0, k).
C1_ExactlyKClusters ==
  (op = "cluster" /\ pc = "done" /\ validArguments) =>
    /\ result.tag = "ClusterResult"
    /\ Len(result.clusters) = options.k
    /\ \A c \in 1..options.k :
         /\ result.clusters[c].id = c - 1
         /\ result.clusters[c].size =
              Cardinality({i \in 1..Len(result.assignments) :
                             result.assignments[i].clusterId = c - 1})
    /\ Len(result.assignments) = Len(embeddings)
    /\ \A i \in 1..Len(embeddings) :
         /\ result.assignments[i].id = i
         /\ result.assignments[i].clusterId \in 0..(options.k - 1)

\* C1's case: a result with a cluster nobody was assigned to.
C1_Witness ==
  /\ op = "cluster" /\ pc = "done" /\ validArguments
  /\ result.tag = "ClusterResult"
  /\ options.k >= 2
  /\ \E c \in 1..Len(result.clusters) : result.clusters[c].size = 0
  /\ \E c \in 1..Len(result.clusters) : result.clusters[c].size >= 2

\* C2: in every clustering entry point (cluster, clusterMiniBatch,
\* clusterSoft), a call whose embeddings do not all have the same number of
\* dimensions fails with the input error before any iteration begins, and
\* never returns a result.
C2_MismatchedDimensionsFail ==
  (/\ op \in {"cluster", "clusterMiniBatch", "clusterSoft"}
   /\ pc = "done"
   /\ dimensionMismatch(embeddings)) =>
    /\ result = ClusteringError
    /\ iter = 0

\* C3: cluster and clusterMiniBatch fail with the input error, before any
\* seeding and before any iteration, whenever points is empty, k <= 0 or
\* k > points.length.
C3_InvalidArgumentsFail ==
  (/\ op \in {"cluster", "clusterMiniBatch"}
   /\ pc # "start"
   /\ (Len(embeddings) = 0 \/ options.k <= 0 \/ options.k > Len(embeddings))) =>
    /\ pc = "done"
    /\ result = ClusteringError
    /\ centroids = <<>> /\ centroidCounts = <<>> /\ assignments = <<>>
    /\ iter = 0 /\ sampled = {}

\* C3's case: a mini-batch call on non-empty points with k > points.length
\* has failed.
C3_Witness ==
  /\ op = "clusterMiniBatch" /\ pc = "done"
  /\ Len(embeddings) > 0 /\ options.k > Len(embeddings)
  /\ result = ClusteringError

\* C4: whenever a cluster run stops because the assignments are unchanged,
\* the returned centroid of every non-empty cluster is the arithmetic mean
\* of the points assigned to it (stated for embeddings of one dimension
\* count).
C4_CentroidIsMeanWhenUnchanged ==
  (/\ op = "cluster" /\ pc = "done" /\ result.tag = "ClusterResult"
   /\ stop = "unchanged"
   /\ ~dimensionMismatch(embeddings)) =>
    \A c \in 1..Len(result.clusters) :
      membersOf(c - 1) # <<>> =>
        result.clusters[c].centroid = meanVector(membersOf(c - 1))

(***************************************************************************)
(* Properties of mini-batch clustering.                                    *)
(***************************************************************************)
\* C8: clusterMiniBatch returns exactly one assignment for every input point,
\* sampled into a batch or not, and no final centroid is nearer to a point
\* than the centroid of the cluster the point is assigned to.
C8_EveryPointAssignedNearest ==
  (op = "clusterMiniBatch" /\ pc = "done" /\ result.tag = "ClusterResult") =>
    /\ Len(result.assignments) = Len(embeddings)
    /\ \A i \in 1..Len(embeddings) :
         LET a == result.assignments[i] IN
         /\ a.id = i
         /\ a.clusterId \in 0..(Len(result.clusters) - 1)
         /\ \A c \in 1..Len(result.clusters) :
              ~Less(euclideanDistance(embeddings[i], result.clusters[c].centroid),
                    euclideanDistance(embeddings[i],
                                      result.clusters[a.clusterId + 1].centroid))

\* C8's case: a point that no batch ever drew is assigned, and to a cluster
\* other than the default 0 because that cluster's centroid is nearer.
C8_Witness ==
  /\ op = "clusterMiniBatch" /\ pc = "done" /\ result.tag = "ClusterResult"
  /\ iter > 0
  /\ \E i \in 1..Len(embeddings) :
       /\ i \notin sampled
       /\ result.assignments[i].clusterId = 1
       /\ Less(euclideanDistance(embeddings[i], result.clusters[2].centroid),
               euclideanDistance(embeddings[i], result.clusters[1].centroid))

(***************************************************************************)
(* Properties of soft clustering.                                          *)
(***************************************************************************)
softReturned ==
  op = "clusterSoft" /\ pc = "done" /\ result.tag = "SoftClusterResult"
    /\ Len(embeddings) >= 2

\* The softmax probability of point i for cluster j (0-based) over the
\* returned centroids.
probabilityOf(i, j) ==
  softmax([c \in 1..Len(result.centroids) |->
             euclideanDistance(embeddings[i], result.centroids[c])],
          DefaultTemperature)[j + 1]

\* The emitted assignments of point i, and of the pair (i, j).
emittedOfPoint(i) == SelectSeq(result.softAssignments, LAMBDA a : a.vectorIdx = i)
emittedOfPair(i, j) == SelectSeq(emittedOfPoint(i), LAMBDA a : a.clusterId = j)

RECURSIVE sumOfProbabilities(_)
sumOfProbabilities(as) ==
  IF as = <<>> THEN 0 ELSE Head(as).probability.v + sumOfProbabilities(Tail(as))

\* C5: when clusterSoft selects k by BIC over k = 1 .. maxK, with
\* maxK = min(maxClusters, n), every k of 1 .. maxK is tested once, and the
\* chosen k (numClusters, metadata.selectedK) lies in 1 .. maxK and is the
\* smallest tested k whose BIC is <= the BIC of every other tested k.
C5_SmallestKOfMinimalBIC ==
  (softReturned /\ options.useBIC /\ Min(options.maxClusters, Len(embeddings)) > 1) =>
    LET maxK == Min(options.maxClusters, Len(embeddings))
        tested == result.bicScores
        chosen == result.numClusters
    IN /\ result.selectedK = chosen
       /\ chosen \in 1..maxK
       /\ Len(tested) = maxK
       /\ \A i \in 1..Len(tested) : tested[i].k = i
       /\ \A i \in 1..Len(tested) :
            /\ ~Less(tested[i].bic, tested[chosen].bic)
            /\ tested[i].bic = tested[chosen].bic => i >= chosen

\* C5's case: two values of k were tested and the larger one was chosen.
C5_Witness ==
  /\ softReturned /\ options.useBIC
  /\ Len(result.bicScores) = 2
  /\ result.selectedK = 2
  /\ Less(result.bicScores[2].bic, result.bicScores[1].bic)

\* C6, as claimed: for two or more points, a (point, cluster) pair is emitted
\* exactly once if its softmax probability is >= minProbability and not at
\* all otherwise, with the raw softmax value, and the probabilities emitted
\* for one point sum to at most 1.
C6_EmittedIffAboveCutoffSumAtMostOne ==
  softReturned =>
    \A i \in 1..Len(embeddings) :
      /\ \A j \in 0..(result.numClusters - 1) :
           /\ Len(emittedOfPair(i, j)) =
                IF probabilityOf(i, j).v >= options.minProbability THEN 1 ELSE 0
           /\ \A x \in 1..Len(emittedOfPair(i, j)) :
                emittedOfPair(i, j)[x].probability = probabilityOf(i, j)
      /\ sumOfProbabilities(emittedOfPoint(i)) <= ProbScale

\* C6, amended: as above, but the probabilities emitted for one point sum to
\* at most 1 plus the rounding of the divisions that produced them (at most
\* half a unit for each emitted pair).
C6_EmittedIffAboveCutoffSumWithinRounding ==
  softReturned =>
    \A i \in 1..Len(embeddings) :
      /\ \A j \in 0..(result.numClusters - 1) :
           /\ Len(emittedOfPair(i, j)) =
                IF probabilityOf(i, j).v >= options.minProbability THEN 1 ELSE 0
           /\ \A x \in 1..Len(emittedOfPair(i, j)) :
                emittedOfPair(i, j)[x].probability = probabilityOf(i, j)
      /\ Len(emittedOfPoint(i)) <= result.numClusters
      /\ 2 * sumOfProbabilities(emittedOfPoint(i))
           <= 2 * ProbScale + Len(emittedOfPoint(i))

\* C6's case: a point with one pair emitted and another pair dropped.
C6_Witness ==
  /\ softReturned /\ result.numClusters >= 2
  /\ \E i \in 1..Len(embeddings) :
       /\ Len(emittedOfPoint(i)) = 1
       /\ sumOfProbabilities(emittedOfPoint(i)) < ProbScale
       /\ \E j \in 0..(result.numClusters - 1) :
            /\ probabilityOf(i, j).v > 0
            /\ probabilityOf(i, j).v < options.minProbability

\* C7, as claimed: every soft assignment clusterSoft returns, whatever the
\* points and the minProbability option, has a probability p with 0 < p <= 1.
C7_ProbabilityPositive ==
  (op = "clusterSoft" /\ pc = "done" /\ result.tag = "SoftClusterResult") =>
    \A x \in 1..Len(result.softAssignments) :
      LET p == result.softAssignments[x].probability IN
      ~p.zero /\ p.v <= ProbScale

\* C7, amended: every soft assignment has a probability p with 0 <= p <= 1,
\* and 0 < p when the minProbability option is greater than 0.
C7_ProbabilityInUnitInterval ==
  (op = "clusterSoft" /\ pc = "done" /\ result.tag = "SoftClusterResult") =>
    \A x \in 1..Len(result.softAssignments) :
      LET p == result.softAssignments[x].probability IN
      /\ 0 <= p.v /\ p.v <= ProbScale
      /\ p.zero => p.v = 0
      /\ options.minProbability > 0 => (~p.zero /\ p.v > 0)

\* C7's case: with a positive cutoff, a pair whose probability underflowed
\* to 0 was dropped and the other pair of the point was emitted.
C7_Witness ==
  /\ softReturned /\ options.minProbability > 0
  /\ \E i \in 1..Len(embeddings) :
       /\ \E j \in 0..(result.numClusters - 1) : probabilityOf(i, j).zero
       /\ Len(emittedOfPoint(i)) = 1

(***************************************************************************)
(* Properties of search.                                                   *)
(***************************************************************************)
searchReturned == op = "search" /\ pc = "done" /\ result.tag = "SearchResults"

\* Both stores were queried.
bothQueried == healthCheck = "Right" /\ options.hybrid

\* The positions of the hits of rs on the chunk of hit h.
hitsOn(rs, h) == {i \in 1..Len(rs) : sameChunk(rs[i], h)}

\* A hit r carries the provenance and the boosted score of the vector hit v.
boostedFrom(r, v) ==
  /\ r.matchType = "hybrid"
  /\ 10 * r.score <= Min(10 * ScoreScale, 12 * v.score)

\* C9, as claimed: a hit whose (document id, page, chunk index) is in both the
\* vector result set and the keyword result set is emitted exactly once, with
\* provenance "hybrid" and a score <= min(1.0, its vector score x 1.2).
C9_BothSetsHitEmittedOnce ==
  (searchReturned /\ bothQueried) =>
    \A v \in 1..Len(vectorResults) :
      hitsOn(ftsResults, vectorResults[v]) # {} =>
        /\ Cardinality(hitsOn(result.hits, vectorResults[v])) = 1
        /\ \A i \in hitsOn(result.hits, vectorResults[v]) :
             boostedFrom(result.hits[i], vectorResults[v])

\* C9, amended: such a hit is in the merged list exactly once and is emitted
\* at most once (the cut to `limit` hits may drop it); wherever it is, it has
\* provenance "hybrid" and a score <= min(1.0, its vector score x 1.2).
C9_BothSetsHitMergedOnce ==
  (searchReturned /\ bothQueried) =>
    \A v \in 1..Len(vectorResults) :
      hitsOn(ftsResults, vectorResults[v]) # {} =>
        /\ Cardinality(hitsOn(results, vectorResults[v])) = 1
        /\ Cardinality(hitsOn(result.hits, vectorResults[v])) <= 1
        /\ \A i \in hitsOn(results, vectorResults[v]) :
             boostedFrom(results[i], vectorResults[v])
        /\ \A i \in hitsOn(result.hits, vectorResults[v]) :
             boostedFrom(result.hits[i], vectorResults[v])

\* C9's case: a hit of both sets is returned beside a vector-only and a
\* keyword-only hit, its score capped at 1.0.
C9_Witness ==
  /\ searchReturned /\ bothQueried
  /\ \E i, j, k \in 1..Len(result.hits) :
       /\ result.hits[i].matchType = "hybrid" /\ result.hits[i].score = ScoreScale
       /\ result.hits[j].matchType = "vector"
       /\ result.hits[k].matchType = "fts"

positionOf(h) == findIndex(results, h)

\* Hit a ranks before hit b: higher score, or equal score and earlier in the
\* merged list.
ranksBefore(a, b) ==
  \/ a.score > b.score
  \/ a.score = b.score /\ positionOf(a) < positionOf(b)

callsTo(fn) == {i \in 1..Len(calls) : calls[i].fn = fn}

C12_DescendingStableFirstLimit ==
  searchReturned =>
    LET hits == result.hits IN
    /\ \A i \in 1..Len(hits) :
         positionOf(hits[i]) > 0 /\ hits[i] = results[positionOf(hits[i])]
    /\ \A i, j \in 1..Len(hits) : i < j => ranksBefore(hits[i], hits[j])
    /\ \A p \in 1..Len(results) :
         (\A i \in 1..Len(hits) : ~sameChunk(hits[i], results[p])) =>
           \A i \in 1..Len(hits) : ranksBefore(hits[i], results[p])
    /\ options.limit >= 0 => Len(hits) = Min(options.limit, Len(results))
    /\ \A v \in 1..Len(vectorResults) :
         v <= Len(results) /\ sameChunk(results[v], vectorResults[v])
    /\ \A p, q \in (Len(vectorResults) + 1)..Len(results) :
         p < q =>
           /\ results[p].matchType = "fts"
           /\ \E a, b \in 1..Len(ftsResults) :
                a < b /\ results[p] = ftsResults[a] /\ results[q] = ftsResults[b]

\* C12's case: three merged hits tie, the cut keeps two of them, and the one
\* that entered the merged list last is the one the cut dropped.
C12_Witness ==
  /\ searchReturned /\ options.limit = 2 /\ Len(results) = 3
  /\ result.hits[1].score = result.hits[2].score
  /\ results[3].score = result.hits[1].score
  /\ \A x \in 1..Len(result.hits) : ~sameChunk(result.hits[x], results[3])

\* C13: a collaborator call that fails during search (embedding the query,
\* vector retrieval, keyword retrieval, adjacent-chunk fetch) does not fail
\* the query: search always resolves with hits.
C13_CollaboratorFailureSkipsSource ==
  (op = "search" /\ pc = "done") => result.tag = "SearchResults"

\* C14: when the health check of the embedding provider fails, search makes
\* no embed call and no vector retrieval, makes the keyword retrieval even
\* when hybrid is false, and returns successfully with keyword hits only.
C14_HealthFailureKeywordOnly ==
  (op = "search" /\ pc = "done" /\ healthCheck = "Left") =>
    /\ callsTo("embed") = {} /\ callsTo("vectorSearch") = {}
    /\ callsTo("ftsSearch") # {}
    /\ result.tag = "SearchResults"
    /\ result.hits = sortAndLimit(ftsResults, options.limit)
    /\ \A i \in 1..Len(result.hits) : result.hits[i].matchType = "fts"

\* C15: with expandChars > 0 the expanded content returned for a hit never
\* has more than expandChars x 1.2 characters.
C15_ExpandedContentWithinCeiling ==
  (searchReturned /\ options.expandChars > 0) =>
    \A i \in 1..Len(result.hits) :
      10 * result.hits[i].expandedContent.length <= 12 * options.expandChars

\* C16: a hit whose chunk index lies inside the window computed for an
\* earlier hit of the same document in this call gets such a window, and
\* getExpandedContext is not called for it.
C16_CoveredHitNotFetched ==
  (searchReturned /\ options.expandChars > 0) =>
    \A i \in 1..Len(result.hits) :
      LET h == result.hits[i]
          earlier == {j \in 1..(i - 1) :
                        /\ result.hits[j].docId = h.docId
                        /\ h.chunkIndex >= result.hits[j].expandedRange.start
                        /\ h.chunkIndex <= result.hits[j].expandedRange.end}
      IN earlier # {} =>
           /\ \A c \in callsTo("getExpandedContext") :
                ~(calls[c].docId = h.docId /\ calls[c].chunkIndex = h.chunkIndex)
           /\ \E j \in earlier :
                /\ h.expandedRange = result.hits[j].expandedRange
                /\ h.expandedContent = result.hits[j].expandedContent

(***************************************************************************)
(* Properties of the concept mapper.                                       *)
(***************************************************************************)
mapReturned == op = "mapCluster" /\ pc = "done" /\ result.tag = "MapResult"

similarityOf(i) == cosineSimilarity(cluster.centroid, concepts[i].embedding)

\* C17: mapCluster returns matched = true exactly when the highest cosine
\* similarity between the centroid and a concept embedding is >= threshold,
\* and then conceptId and confidence are those of a concept that attains
\* the highest similarity.
C17_MatchedIffBestReachesThreshold ==
  mapReturned =>
    /\ result.matched <=>
         \E i \in 1..Len(concepts) : atLeast(similarityOf(i), options.threshold)
    /\ result.matched =>
         \E i \in 1..Len(concepts) :
           /\ result.conceptId = concepts[i].id
           /\ result.confidence = similarityOf(i)
           /\ \A j \in 1..Len(concepts) : ~greater(similarityOf(j), similarityOf(i))

\* C17's case: two concepts reach the threshold and the second, of higher
\* similarity, is the one returned.
C17_Witness ==
  /\ mapReturned /\ result.matched /\ Len(concepts) = 2
  /\ atLeast(similarityOf(1), options.threshold)
  /\ greater(similarityOf(2), similarityOf(1))
  /\ result.conceptId = concepts[2].id

\* C18: whenever mapCluster returns matched = false, the result carries a
\* non-empty suggested label, whatever the summary text of the cluster.
C18_SuggestedLabelNonEmpty ==
  (mapReturned /\ ~result.matched) => strLen(result.suggestedLabel) > 0

(***************************************************************************)
(* Properties of the cluster summarizer.                                   *)
(***************************************************************************)
\* The increasing runs of at most MaxSentences chunk indices.
picksOf(n) ==
  UNION {{q \in [1..m -> 1..n] : \A i, j \in 1..m : i < j => q[i] < q[j]} :
         m \in 0..Min(MaxSentences, n)}

\* C19: when the LLM call fails for a non-empty set of chunks, summarize
\* still resolves, never with an error, and with the extractive fallback: a
\* summary made of the first sentences of at most 3 member chunks, in chunk
\* order, chunkCount equal to the number of chunks passed, and no keyTopics.
C19_ExtractiveFallbackOnLlmFailure ==
  (op = "summarize" /\ pc = "done" /\ llm = "rejected" /\ Len(chunks) > 0) =>
    /\ result.tag = "ClusterSummary"
    /\ result.clusterId = options.clusterId
    /\ result.chunkCount = Len(chunks)
    /\ "keyTopics" \notin DOMAIN result
    /\ \E q \in picksOf(Len(chunks)) :
         /\ result.summary.sentences =
              [i \in 1..Len(q) |-> trim(firstSentence(chunks[q[i]]))]
         /\ result.summary = IF Len(q) > 0 THEN CoversSummary(result.summary.sentences)
                             ELSE FragmentsSummary

\* C19's case: the LLM call failed for four chunks that each start with a
\* long sentence, and the fallback took the first three.
C19_Witness ==
  /\ op = "summarize" /\ pc = "done" /\ llm = "rejected"
  /\ Len(chunks) = 4 /\ Len(longSentences(chunks)) = 4
  /\ "maxChunks" \notin DOMAIN options
  /\ Len(result.summary.sentences) = 3

(***************************************************************************)
(* Idempotence of the hard clusterer.                                      *)
(***************************************************************************)
returnedCentroids == [c \in 1..Len(result.clusters) |-> result.clusters[c].centroid]
returnedIds == [i \in 1..Len(result.assignments) |-> result.assignments[i].clusterId]

\* C20: when a cluster run stopped because the assignments were unchanged,
\* the iteration run again from the returned centroids assigns every point
\* the cluster id it was returned with and finds the assignments unchanged,
\* and the whole loop restarted with the returned centroids as its seeds
\* returns the same cluster id for every point.
C20_RerunReproducesAssignment ==
  (op = "cluster" /\ pc = "done" /\ result.tag = "ClusterResult"
     /\ stop = "unchanged") =>
    LET again == kMeansStep(embeddings, options.k, returnedCentroids, returnedIds)
    IN /\ assignAll(embeddings, returnedCentroids, options.k) = returnedIds
       /\ again.unchanged /\ again.assignments = returnedIds
       /\ kMeansLoop(embeddings, options.k, returnedCentroids,
                     [i \in 1..Len(embeddings) |-> 0], 0,
                     options.maxIterations).assignments = returnedIds

\* C20's case: a run that took at least one full iteration, put points in
\* two clusters and then stopped on unchanged assignments.
C20_Witness ==
  /\ op = "cluster" /\ pc = "done" /\ result.tag = "ClusterResult"
  /\ stop = "unchanged" /\ iter >= 1
  /\ \E i, j \in 1..Len(returnedIds) : returnedIds[i] # returnedIds[j]


(***************************************************************************)
(* Concurrent calls.  Every call of clusterMiniBatch and of search works   *)
(* on variables it declares itself; runs[c] holds those of call c, with    *)
(* the random draws and the collaborator responses the call has consumed.  *)
(* The calls are interleaved one step at a time.                           *)
(***************************************************************************)
MaxCalls == 2   \* calls in progress at the same time

ConcurrentVectors == <<Vec(<<0>>), Vec(<<1>>)>>
ConcurrentChunks == {<<"d1", 1, 0>>}
ConcurrentVectorScores == {50}
ConcurrentFtsScores == {10}

\* The variables of a call that has not started.
NewRun(kind, vectors, k, maxIterations, hybrid) ==
  [kind |-> kind, pc |-> "start",
   vectors |-> vectors, k |-> k, batchSize |-> 1, maxIterations |-> maxIterations,
   hybrid |-> hybrid, limit |-> MaxLimit,
   seeds |-> <<>>, draws |-> <<>>,
   healthCheck |-> None, vectorResults |-> <<>>, ftsResults |-> <<>>,
   failure |-> None,
   centroids |-> <<>>, centroidCounts |-> <<>>, previousCentroids |-> <<>>,
   iter |-> 0, results |-> <<>>, result |-> NoResult]

NewRuns ==
  {NewRun("clusterMiniBatch", ConcurrentVectors, k, 2, FALSE) : k \in {0, 1}}
  \cup {NewRun("search", <<>>, 0, 0, h) : h \in BOOLEAN}

\* The variables a step of call c reads and writes: those the call declared.
workingSetShared(rs, c) ==
  [rs[c] EXCEPT !.centroidCounts =
                  IF Len(rs[1].centroidCounts) = Len(rs[c].centroidCounts)
                  THEN rs[1].centroidCounts ELSE rs[c].centroidCounts,
                !.results = rs[1].results]
workingSet(rs, c) == rs[c]

\* The next step of a clusterMiniBatch call: start, one iteration, return.
miniBatchSteps(ws) ==
  IF ws.pc = "start"
  THEN IF invalidInput(ws.vectors, ws.k)
       THEN {[ws EXCEPT !.result = ClusteringError, !.pc = "done"]}
       ELSE {[ws EXCEPT !.seeds = cs, !.centroids = cs, !.previousCentroids = cs,
                        !.centroidCounts = [c \in 1..ws.k |-> 0],
                        !.pc = "loop"] :
               cs \in kMeansPlusPlusInit(ws.vectors, ws.k)}
  ELSE IF ws.pc = "loop"
  THEN IF ws.iter >= ws.maxIterations
       THEN {[ws EXCEPT !.pc = "return"]}
       ELSE {LET s == miniBatchStep(ws.vectors, ws.k, ws.centroids, ws.centroidCounts,
                                    ws.previousCentroids, ws.iter, batchIndices)
             IN [ws EXCEPT !.centroids = s.centroids,
                           !.centroidCounts = s.counts,
                           !.previousCentroids = s.previousCentroids,
                           !.draws = Append(ws.draws, batchIndices),
                           !.iter = IF s.converged THEN ws.iter ELSE ws.iter + 1,
                           !.pc = IF s.converged THEN "return" ELSE "loop"] :
               batchIndices \in batches(Len(ws.vectors),
                                        Min(ws.batchSize, Len(ws.vectors)))}
  ELSE {[ws EXCEPT !.result = clusterResult(ws.vectors, ws.centroids,
                                 assignAll(ws.vectors, ws.centroids, ws.k)),
                   !.pc = "done"]}

\* The next step of a search call: health check, vector search, keyword
\* search and merge, sort and limit.
searchSteps(ws) ==
  IF ws.pc = "start"
  THEN {[ws EXCEPT !.healthCheck = h, !.pc = "vector"] : h \in {"Right", "Left"}}
  ELSE IF ws.pc = "vector"
  THEN IF ws.healthCheck = "Right"
       THEN {[ws EXCEPT !.failure = "embed", !.result = OllamaError, !.pc = "done"],
             [ws EXCEPT !.failure = "vectorSearch", !.result = DatabaseError,
                        !.pc = "done"]}
            \cup {[ws EXCEPT !.vectorResults = vr, !.results = ws.results \o vr,
                             !.pc = "fts"] : vr \in vectorSearch(ws)}
       ELSE {[ws EXCEPT !.pc = "fts"]}
  ELSE IF ws.pc = "fts"
  THEN IF ws.hybrid \/ ws.healthCheck = "Left"
       THEN {[ws EXCEPT !.failure = "ftsSearch", !.result = DatabaseError,
                        !.pc = "done"]}
            \cup {[ws EXCEPT !.ftsResults = fr, !.results = mergeFts(ws.results, fr),
                             !.pc = "sort"] : fr \in ftsSearch(ws)}
       ELSE {[ws EXCEPT !.pc = "sort"]}
  ELSE {[ws EXCEPT !.result = [tag |-> "SearchResults",
                               hits |-> sortAndLimit(ws.results, ws.limit)],
                   !.pc = "done"]}

InitConcurrent ==
  /\ runs \in [1..MaxCalls -> NewRuns]
  /\ cancelAt = -1 /\ NoDaemon /\ NoOllama /\ NoLibrary /\ NoRegen
  /\ store = [chunks |-> [c \in ConcurrentChunks |-> 1],
              vectorScores |-> ConcurrentVectorScores,
              ftsScores |-> ConcurrentFtsScores]
  /\ NoCall

\* One step of a clusterMiniBatch call, the other calls standing still.
ConcurrentMiniBatch(c) ==
  /\ runs[c].kind = "clusterMiniBatch" /\ runs[c].pc # "done"
  /\ \E next \in miniBatchSteps(workingSet(runs, c)) :
       runs' = [runs EXCEPT ![c] = next]
  /\ UNCHANGED <<callVars, cancelAt, daemonVars, ollamaVars, libraryVars, regenVars>>

\* One step of a search call, the other calls standing still.
ConcurrentSearch(c) ==
  /\ runs[c].kind = "search" /\ runs[c].pc # "done"
  /\ \E next \in searchSteps(workingSet(runs, c)) :
       runs' = [runs EXCEPT ![c] = next]
  /\ UNCHANGED <<callVars, cancelAt, daemonVars, ollamaVars, libraryVars, regenVars>>

NextConcurrent ==
  \E c \in 1..MaxCalls : ConcurrentMiniBatch(c) \/ ConcurrentSearch(c)

SpecConcurrent == InitConcurrent /\ [][NextConcurrent]_vars

(***************************************************************************)
(* A call run alone: the same inputs, draws and responses, from start to   *)
(* return with no other call in progress.                                  *)
(***************************************************************************)
RECURSIVE aloneLoop(_, _, _)
aloneLoop(ws, st, i) ==
  IF i > Len(ws.draws) THEN st
  ELSE LET s == miniBatchStep(ws.vectors, ws.k, st.centroids, st.counts,
                              st.previousCentroids, i - 1, ws.draws[i])
       IN aloneLoop(ws, [centroids |-> s.centroids, counts |-> s.counts,
                         previousCentroids |-> s.previousCentroids], i + 1)

aloneMiniBatch(ws) ==
  IF invalidInput(ws.vectors, ws.k) THEN ClusteringError
  ELSE LET st == aloneLoop(ws, [centroids |-> ws.seeds,
                                counts |-> [c \in 1..ws.k |-> 0],
                                previousCentroids |-> ws.seeds], 1)
       IN clusterResult(ws.vectors, st.centroids,
                        assignAll(ws.vectors, st.centroids, ws.k))

aloneSearch(ws) ==
  IF ws.failure = "embed" THEN OllamaError
  ELSE IF ws.failure # None THEN DatabaseError
  ELSE LET vector == IF ws.healthCheck = "Right" THEN ws.vectorResults ELSE <<>>
           merged == IF ws.hybrid \/ ws.healthCheck = "Left"
                     THEN mergeFts(vector, ws.ftsResults) ELSE vector
       IN [tag |-> "SearchResults", hits |-> sortAndLimit(merged, ws.limit)]

alone(ws) ==
  IF ws.kind = "search" THEN aloneSearch(ws) ELSE aloneMiniBatch(ws)

InitCancel ==
  \/ InitMiniBatch
  \/ /\ op = "cluster"
     /\ \E e \in InputsMB : embeddings = [i \in 1..Len(e) |-> Vec(e[i])]
     /\ \E k \in 0..MaxK, m \in {0, MaxIterations, DefaultMaxIterations} :
          options = [k |-> k, maxIterations |-> m]
     /\ InitCommon

\* The caller asks to abandon the run in progress.
RequestCancel ==
  /\ op \in {"cluster", "clusterMiniBatch"}
  /\ pc \in {"start", "loop"}
  /\ cancelAt = -1
  /\ cancelAt' = iter
  /\ UNCHANGED <<callVars, runs, daemonVars, ollamaVars, libraryVars, regenVars>>

NextCancel == NextHard \/ RequestCancel

SpecCancel == InitCancel /\ [][NextCancel]_vars

\* The run begins an iteration: it is at the top of its loop with iterations
\* left, and takes its step.
beginsIteration ==
  /\ pc = "loop" /\ iter < options.maxIterations
  /\ ClusterIterate \/ MiniBatchIterate

\* C22: once the caller has asked to abandon a run of cluster or
\* clusterMiniBatch, the run begins no further iteration.
C22_CancelBeforeNextIteration == [][cancelAt # -1 => ~beginsIteration]_vars


(***************************************************************************)
(* The daemon (Daemon.ts) of one process.  A config names a socket file, a *)
(* PID file and a database directory.  Every call of startDaemon and       *)
(* stopDaemon is taken from one await to the next; calls are numbered in   *)
(* the order they are made, and the database instance call i creates is    *)
(* instance i.                                                             *)
(***************************************************************************)
MaxDaemonCalls == 3   \* calls of startDaemon and stopDaemon made in a run
MaxOverlap == 2       \* calls in progress at the same time

Configs == {"A", "B"}

\* What a PID file holds: nothing (no file), this process's pid, the pid of
\* a process that is gone, or text that is no pid.
StaleFiles == {[socket |-> FALSE, pid |-> "none"], [socket |-> TRUE, pid |-> "dead"],
               [socket |-> FALSE, pid |-> "garbage"]}

AlreadyRunning == "Daemon already running"

IdleDaemonCall ==
  [op |-> "none", config |-> "none", pc |-> "idle", outcome |-> "none",
   created |-> FALSE, wasRunning |-> FALSE, overlapped |-> {}]

\* isDaemonRunning(config): socket file, PID file, a pid, a live process.
isDaemonRunning(files, c) ==
  /\ files[c].socket
  /\ files[c].pid # "none"
  /\ files[c].pid # "garbage"
  /\ files[c].pid = "self"

\* rmSync(config.pidPath) and rmSync(socketFile), each if it exists.
removePidFile(files, c) == [files EXCEPT ![c].pid = "none"]
removeFiles(files, c) == [files EXCEPT ![c] = [socket |-> FALSE, pid |-> "none"]]

inProgress == {i \in 1..MaxDaemonCalls : dcalls[i].pc \notin {"idle", "done"}}

\* A daemon of config c is up: a call of startDaemon(c) has returned, and
\* the database instance it created is open with its socket server listening.
daemonUp(c) ==
  \E d \in instances : d.config = c /\ d.server /\ dcalls[d.id].pc = "done"

otherVars == <<callVars, runs, cancelAt, ollamaVars, libraryVars, regenVars>>

InitDaemon ==
  /\ fs \in [Configs -> StaleFiles]
  /\ activeDaemon = 0
  /\ instances = {}
  /\ dcalls = [i \in 1..MaxDaemonCalls |-> IdleDaemonCall]
  /\ runs = <<>> /\ cancelAt = -1 /\ NoOllama /\ NoLibrary /\ NoRegen
  /\ NoCall /\ NoSearchCall

\* A call can be made: the calls before it have been, and fewer than
\* MaxOverlap calls are in progress.
canCall(i) ==
  /\ dcalls[i].pc = "idle"
  /\ \A j \in 1..(i - 1) : dcalls[j].pc # "idle"
  /\ Cardinality(inProgress) < MaxOverlap

NewDaemonCall(o, c) ==
  [op |-> o, config |-> c, pc |-> "begin", outcome |-> "none",
   created |-> FALSE, wasRunning |-> daemonUp(c),
   overlapped |-> {j \in inProgress : dcalls[j].op = o /\ dcalls[j].config = c}]

\* startDaemon(c) up to its first suspension:
\* if (await isDaemonRunning(config)) throw new Error("Daemon already running")
StartCheck(i) ==
  /\ canCall(i)
  /\ \E c \in Configs :
       dcalls' = [dcalls EXCEPT ![i] =
                    IF isDaemonRunning(fs, c)
                    THEN [NewDaemonCall("startDaemon", c) EXCEPT
                            !.outcome = AlreadyRunning, !.pc = "done"]
                    ELSE [NewDaemonCall("startDaemon", c) EXCEPT !.pc = "database"]]
  /\ UNCHANGED <<fs, activeDaemon, instances, otherVars>>

\* new PGlite(pgDataDir), waitReady and the schema.
StartDatabase(i) ==
  /\ dcalls[i].op = "startDaemon" /\ dcalls[i].pc = "database"
  /\ instances' = instances \cup
                    {[id |-> i, config |-> dcalls[i].config, server |-> FALSE]}
  /\ dcalls' = [dcalls EXCEPT ![i].created = TRUE, ![i].pc = "server"]
  /\ UNCHANGED <<fs, activeDaemon, otherVars>>

\* new PGLiteSocketServer({ db, path: socketFile }); await server.start().
\* Over a socket file that is already there the library may fail or take
\* the path over.
StartServer(i) ==
  /\ dcalls[i].op = "startDaemon" /\ dcalls[i].pc = "server"
  /\ \/ /\ instances' = {IF d.id = i THEN [d EXCEPT !.server = TRUE] ELSE d :
                           d \in instances}
        /\ fs' = [fs EXCEPT ![dcalls[i].config].socket = TRUE]
        /\ dcalls' = [dcalls EXCEPT ![i].pc = "pid"]
     \/ /\ fs[dcalls[i].config].socket
        /\ dcalls' = [dcalls EXCEPT ![i].outcome = "Error", ![i].pc = "done"]
        /\ UNCHANGED <<fs, instances>>
  /\ UNCHANGED <<activeDaemon, otherVars>>

\* await Bun.write(config.pidPath, `${process.pid}`)
StartWritePid(i) ==
  /\ dcalls[i].op = "startDaemon" /\ dcalls[i].pc = "pid"
  /\ fs' = [fs EXCEPT ![dcalls[i].config].pid = "self"]
  /\ dcalls' = [dcalls EXCEPT ![i].pc = "activate"]
  /\ UNCHANGED <<activeDaemon, instances, otherVars>>

\* activeDaemon = { server, db, config }; the shutdown handlers; return.
StartActivate(i) ==
  /\ dcalls[i].op = "startDaemon" /\ dcalls[i].pc = "activate"
  /\ activeDaemon' = i
  /\ dcalls' = [dcalls EXCEPT ![i].outcome = "ok", ![i].pc = "done"]
  /\ UNCHANGED <<fs, instances, otherVars>>

\* stopDaemon(c) up to its first suspension:
\* if (!activeDaemon) { remove the files; return }  else CHECKPOINT.
StopBegin(i) ==
  /\ canCall(i)
  /\ \E c \in Configs :
       IF activeDaemon = 0
       THEN /\ fs' = removeFiles(fs, c)
            /\ dcalls' = [dcalls EXCEPT ![i] =
                            [NewDaemonCall("stopDaemon", c) EXCEPT
                               !.outcome = "ok", !.pc = "done"]]
       ELSE /\ dcalls' = [dcalls EXCEPT ![i] =
                            [NewDaemonCall("stopDaemon", c) EXCEPT !.pc = "server"]]
            /\ UNCHANGED fs
  /\ UNCHANGED <<activeDaemon, instances, otherVars>>

\* await activeDaemon.server.stop(): a TypeError once activeDaemon is null.
StopServer(i) ==
  /\ dcalls[i].op = "stopDaemon" /\ dcalls[i].pc = "server"
  /\ IF activeDaemon = 0
     THEN /\ dcalls' = [dcalls EXCEPT ![i].outcome = "TypeError", ![i].pc = "done"]
          /\ UNCHANGED instances
     ELSE /\ instances' = {IF d.id = activeDaemon THEN [d EXCEPT !.server = FALSE]
                           ELSE d : d \in instances}
          /\ dcalls' = [dcalls EXCEPT ![i].pc = "database"]
  /\ UNCHANGED <<fs, activeDaemon, otherVars>>

\* await activeDaemon.db.close()
StopDatabase(i) ==
  /\ dcalls[i].op = "stopDaemon" /\ dcalls[i].pc = "database"
  /\ IF activeDaemon = 0
     THEN /\ dcalls' = [dcalls EXCEPT ![i].outcome = "TypeError", ![i].pc = "done"]
          /\ UNCHANGED instances
     ELSE /\ instances' = {d \in instances : d.id # activeDaemon}
          /\ dcalls' = [dcalls EXCEPT ![i].pc = "cleanup"]
  /\ UNCHANGED <<fs, activeDaemon, otherVars>>

\* Remove the PID file and the socket file; activeDaemon = null; return.
StopCleanup(i) ==
  /\ dcalls[i].op = "stopDaemon" /\ dcalls[i].pc = "cleanup"
  /\ fs' = removeFiles(fs, dcalls[i].config)
  /\ activeDaemon' = 0
  /\ dcalls' = [dcalls EXCEPT ![i].outcome = "ok", ![i].pc = "done"]
  /\ UNCHANGED <<instances, otherVars>>

startDaemon(i) ==
  StartCheck(i) \/ StartDatabase(i) \/ StartServer(i) \/ StartWritePid(i)
    \/ StartActivate(i)

stopDaemon(i) ==
  StopBegin(i) \/ StopServer(i) \/ StopDatabase(i) \/ StopCleanup(i)

NextDaemon == \E i \in 1..MaxDaemonCalls : startDaemon(i) \/ stopDaemon(i)

SpecDaemon == InitDaemon /\ [][NextDaemon]_vars


\* A call of startDaemon found a daemon of its config up.
startedOverDaemon(i) == dcalls[i].op = "startDaemon" /\ dcalls[i].wasRunning

\* C23: a call of startDaemon(config) made while a daemon of that config is
\* up rejects with "Daemon already running" and creates no database instance
\* and no socket server.
C23_StartRejectsWhenRunning ==
  \A i \in 1..MaxDaemonCalls :
    startedOverDaemon(i) =>
      /\ ~dcalls[i].created
      /\ dcalls[i].pc = "done" => dcalls[i].outcome = AlreadyRunning

\* A call of stopDaemon returns in this step.
stopCompletes(i) ==
  /\ dcalls'[i].op = "stopDaemon"
  /\ dcalls[i].pc # "done" /\ dcalls'[i].pc = "done"
  /\ dcalls'[i].outcome = "ok"

\* C24: when a call of stopDaemon(config) returns, the socket file and the
\* PID file of config do not exist and isDaemonRunning(config) is false,
\* whether the call found an active daemon or not.
C24_StopLeavesNothing ==
  [][\A i \in 1..MaxDaemonCalls :
       stopCompletes(i) =>
         LET c == dcalls'[i].config IN
         /\ ~fs'[c].socket
         /\ fs'[c].pid = "none"
         /\ ~isDaemonRunning(fs', c)]_vars

\* stopDaemon has returned twice: once having closed a daemon whose files
\* were there, once having found no active daemon and stale files.
C24_Witness ==
  \E i, j \in 1..MaxDaemonCalls :
    /\ dcalls[i].op = "stopDaemon" /\ dcalls[i].outcome = "ok" /\ dcalls[i].wasRunning
    /\ dcalls[j].op = "stopDaemon" /\ dcalls[j].outcome = "ok" /\ ~dcalls[j].wasRunning
    /\ dcalls[j].config # dcalls[i].config
    /\ \A c \in {dcalls[i].config, dcalls[j].config} :
         ~fs[c].socket /\ fs[c].pid = "none"

\* C26: of two calls of startDaemon for the same config that overlap in
\* time, at most one creates a database instance and socket server and
\* writes the PID file, and the other rejects with "Daemon already running".
C26_OverlappingStartsCreateOnce ==
  \A i, j \in 1..MaxDaemonCalls :
    (dcalls[j].op = "startDaemon" /\ i \in dcalls[j].overlapped) =>
      /\ ~(dcalls[i].created /\ dcalls[j].created)
      /\ (dcalls[i].pc = "done" /\ dcalls[j].pc = "done") =>
           AlreadyRunning \in {dcalls[i].outcome, dcalls[j].outcome}


(***************************************************************************)
(* The embedding service (Ollama.ts).  An embedding is held as its length  *)
(* and whether all its values are finite.  Every attempt of embed, and of  *)
(* each element of embedBatch, validates the response against the module   *)
(* variable detectedEmbeddingDimension; a failed attempt is retried.       *)
(***************************************************************************)
MaxDimension == 3   \* embeddings have 0 .. MaxDimension values
MaxEmbeds == 3      \* embeddings returned in a run
Retries == 3

Embeddings ==
  {[length |-> l, finite |-> f] : l \in 0..MaxDimension, f \in BOOLEAN}

\* What the embeddings endpoint answers: an embedding or a failure.
Responses == {[ok |-> TRUE, embedding |-> e] : e \in Embeddings}
             \cup {[ok |-> FALSE, embedding |-> [length |-> 0, finite |-> TRUE]]}

\* validateEmbedding(embedding): the dimension it leaves in the module
\* variable, and whether it succeeds.
validateEmbedding(detected, embedding) ==
  IF embedding.length = 0 THEN [detected |-> detected, valid |-> FALSE]
  ELSE IF detected = 0
  THEN [detected |-> embedding.length, valid |-> embedding.finite]
  ELSE IF embedding.length # detected
  THEN [detected |-> detected, valid |-> FALSE]
  ELSE [detected |-> detected, valid |-> embedding.finite]

InitOllama ==
  /\ detectedEmbeddingDimension = 0
  /\ returned = <<>>
  /\ attempt = 0
  /\ embedOutcome = "none"
  /\ runs = <<>> /\ cancelAt = -1 /\ NoDaemon /\ NoLibrary /\ NoRegen
  /\ NoCall /\ NoSearchCall

\* One attempt of embedSingle: fetch, validate, and return, retry or fail.
EmbedAttempt ==
  /\ Len(returned) < MaxEmbeds
  /\ \E response \in Responses :
       LET v == IF response.ok
                THEN validateEmbedding(detectedEmbeddingDimension, response.embedding)
                ELSE [detected |-> detectedEmbeddingDimension, valid |-> FALSE]
       IN /\ detectedEmbeddingDimension' = v.detected
          /\ IF v.valid
             THEN /\ returned' = Append(returned, response.embedding.length)
                  /\ attempt' = 0
                  /\ embedOutcome' = "ok"
             ELSE /\ UNCHANGED returned
                  /\ attempt' = IF attempt < Retries THEN attempt + 1 ELSE 0
                  /\ embedOutcome' = IF attempt < Retries THEN "retry"
                                     ELSE "OllamaError"
  /\ UNCHANGED <<callVars, runs, cancelAt, daemonVars, libraryVars, regenVars>>

\* probeEmbeddingDimension(host, model)
ProbeDimension ==
  /\ \E response \in Responses :
       IF response.ok /\ response.embedding.length # 0
       THEN /\ detectedEmbeddingDimension' = response.embedding.length
            /\ embedOutcome' = "probed"
       ELSE /\ embedOutcome' = "OllamaError"
            /\ UNCHANGED detectedEmbeddingDimension
  /\ UNCHANGED <<returned, attempt, callVars, runs, cancelAt, daemonVars, libraryVars,
                 regenVars>>

NextOllama == EmbedAttempt \/ ProbeDimension

SpecOllama == InitOllama /\ [][NextOllama]_vars

\* C25: every embedding returned by embed or embedBatch in the process has
\* the length of the first one returned; one of another length is rejected.
C25_ReturnedLengthsAgree ==
  \A i \in 1..Len(returned) : returned[i] = returned[1]


(***************************************************************************)
(* PDFLibrary.add.  The library holds, for each path, whether a document   *)
(* row exists and how many chunk rows and embedding rows it has.  A call   *)
(* of add is taken from one collaborator call to the next; every           *)
(* collaborator call can fail with its error.                              *)
(***************************************************************************)
MaxDocChunks == 3   \* an extraction yields 0 .. MaxDocChunks chunks
MaxAdds == 2        \* calls of add made in a run

Paths == {"a.pdf", "b.md"}
QueueBatchSizes == {1, 2}

NoRows == [document |-> FALSE, chunks |-> 0, embeddings |-> 0]

Failure(tag) == [tag |-> tag]

NoAdd ==
  [pc |-> "idle", path |-> "none", chunks |-> 0, batchSize |-> 0, batchIdx |-> 0,
   written |-> FALSE, before |-> <<>>, retryOf |-> "none", result |-> NoResult]

InitLibrary ==
  /\ library = [p \in Paths |-> NoRows]
  /\ adding = NoAdd
  /\ addCount = 0
  /\ runs = <<>> /\ cancelAt = -1 /\ NoDaemon /\ NoOllama /\ NoRegen
  /\ NoCall /\ NoSearchCall

addFails(tag) == adding' = [adding EXCEPT !.pc = "done", !.result = Failure(tag)]

\* add(pdfPath): db.getDocumentByPath and the DocumentExistsError check.
\* retryOf names the path of the call before, when that call failed after
\* writing its document row.
AddBegin ==
  /\ adding.pc \in {"idle", "done"}
  /\ addCount < MaxAdds
  /\ addCount' = addCount + 1
  /\ \E p \in Paths, b \in QueueBatchSizes :
       LET call == [NoAdd EXCEPT
                      !.path = p, !.batchSize = b, !.before = library,
                      !.retryOf = IF /\ adding.pc = "done" /\ adding.written
                                     /\ adding.result.tag # "Document"
                                  THEN adding.path ELSE "none"]
       IN \/ adding' = [call EXCEPT !.pc = "done", !.result = Failure("DatabaseError")]
          \/ adding' = IF library[p].document
                       THEN [call EXCEPT !.pc = "done",
                                         !.result = Failure("DocumentExistsError")]
                       ELSE [call EXCEPT !.pc = "health"]
  /\ UNCHANGED <<library, callVars, runs, cancelAt, daemonVars, ollamaVars, regenVars>>

\* yield* ollama.checkHealth()
AddHealth ==
  /\ adding.pc = "health"
  /\ addFails("OllamaError") \/ adding' = [adding EXCEPT !.pc = "extract"]
  /\ UNCHANGED <<library, addCount, callVars, runs, cancelAt, daemonVars, ollamaVars,
                 regenVars>>

\* The extractor's process(resolvedPath), and the check for no chunks.
AddExtract ==
  /\ adding.pc = "extract"
  /\ \/ addFails("ExtractionError")
     \/ \E n \in 0..MaxDocChunks :
          IF n = 0 THEN addFails("DocumentNotFoundError")
          ELSE adding' = [adding EXCEPT !.chunks = n, !.pc = "document"]
  /\ UNCHANGED <<library, addCount, callVars, runs, cancelAt, daemonVars, ollamaVars,
                 regenVars>>

\* yield* db.addDocument(doc)
AddDocument ==
  /\ adding.pc = "document"
  /\ \/ addFails("DatabaseError") /\ UNCHANGED library
     \/ /\ library' = [library EXCEPT ![adding.path].document = TRUE]
        /\ adding' = [adding EXCEPT !.written = TRUE, !.pc = "chunks"]
  /\ UNCHANGED <<addCount, callVars, runs, cancelAt, daemonVars, ollamaVars, regenVars>>

\* yield* db.addChunks(chunkRecords)
AddChunks ==
  /\ adding.pc = "chunks"
  /\ \/ addFails("DatabaseError") /\ UNCHANGED library
     \/ /\ library' = [library EXCEPT ![adding.path].chunks = adding.chunks]
        /\ adding' = [adding EXCEPT !.pc = "batch"]
  /\ UNCHANGED <<addCount, callVars, runs, cancelAt, daemonVars, ollamaVars, regenVars>>

\* One pass of the batch loop: embedBatch, addEmbeddings, checkpoint; after
\* the last batch, return doc.
AddBatch ==
  /\ adding.pc = "batch"
  /\ IF adding.batchIdx * adding.batchSize < adding.chunks
     THEN LET batchStart == adding.batchIdx * adding.batchSize
              batchEnd == Min(batchStart + adding.batchSize, adding.chunks)
              stored == [library EXCEPT ![adding.path].embeddings =
                                           @ + (batchEnd - batchStart)]
          IN \/ addFails("OllamaError") /\ UNCHANGED library
             \/ addFails("DatabaseError") /\ UNCHANGED library
             \/ addFails("DatabaseError") /\ library' = stored
             \/ /\ library' = stored
                /\ adding' = [adding EXCEPT !.batchIdx = @ + 1]
     ELSE /\ adding' = [adding EXCEPT !.pc = "done", !.result = [tag |-> "Document"]]
          /\ UNCHANGED library
  /\ UNCHANGED <<addCount, callVars, runs, cancelAt, daemonVars, ollamaVars, regenVars>>

NextLibrary ==
  AddBegin \/ AddHealth \/ AddExtract \/ AddDocument \/ AddChunks \/ AddBatch

SpecLibrary == InitLibrary /\ [][NextLibrary]_vars

\* The call of add has failed.
addFailed == adding.pc = "done" /\ adding.result.tag # "Document"

MaxMissing == 6   \* chunks without an embedding when the script starts
MaxErrors == 2    \* the errors counter saturates here
BATCH_SIZE == 5

NewRegen ==
  [pc |-> "start", total |-> 0, processed |-> 0, errors |-> 0, batch |-> 0,
   exit |-> "none"]

InitRegenerate ==
  /\ missing \in 0..MaxMissing
  /\ regen = NewRegen
  /\ runs = <<>> /\ cancelAt = -1 /\ NoDaemon /\ NoOllama /\ NoLibrary
  /\ NoCall /\ NoSearchCall

regenUnchanged ==
  UNCHANGED <<callVars, runs, cancelAt, daemonVars, ollamaVars, libraryVars>>

\* checkOllama, the connection and the count of chunks needing embeddings.
RegenStart ==
  /\ regen.pc = "start"
  /\ \/ regen' = [regen EXCEPT !.pc = "done", !.exit = "failed"]
     \/ regen' = IF missing = 0
                 THEN [regen EXCEPT !.pc = "done", !.exit = "complete"]
                 ELSE [regen EXCEPT !.total = missing, !.pc = "loop"]
  /\ UNCHANGED missing
  /\ regenUnchanged

\* while (processed < total) { batch = SELECT ... LIMIT BATCH_SIZE;
\*   if (batch.rows.length === 0) break; ...
RegenFetch ==
  /\ regen.pc = "loop"
  /\ IF regen.processed < regen.total /\ missing > 0
     THEN \/ regen' = [regen EXCEPT !.batch = Min(BATCH_SIZE, missing), !.pc = "rows"]
          \/ regen' = [regen EXCEPT !.pc = "done", !.exit = "failed"]
     ELSE regen' = [regen EXCEPT !.pc = "stats"]
  /\ UNCHANGED missing
  /\ regenUnchanged

\* One row of the batch: try { getEmbedding; INSERT; processed++ }
\* catch { errors++ }.
RegenRow ==
  /\ regen.pc = "rows"
  /\ LET rest == [regen EXCEPT !.batch = @ - 1,
                               !.pc = IF regen.batch = 1 THEN "loop" ELSE "rows"]
     IN \/ /\ regen' = [rest EXCEPT !.processed = @ + 1]
           /\ missing' = missing - 1
        \/ /\ regen' = [rest EXCEPT !.errors = Min(@ + 1, MaxErrors)]
           /\ UNCHANGED missing
  /\ regenUnchanged

\* The final statistics and db.close().
RegenFinish ==
  /\ regen.pc = "stats"
  /\ regen' = [regen EXCEPT !.pc = "done", !.exit = "complete"]
  /\ UNCHANGED missing
  /\ regenUnchanged

NextRegenerate == RegenStart \/ RegenFetch \/ RegenRow \/ RegenFinish

SpecRegenerate == InitRegenerate /\ [][NextRegenerate]_vars

\* main is never suspended for ever: every await settles.
SpecRegenerateLive == SpecRegenerate /\ WF_vars(NextRegenerate)

\* C30: the main loop of the script terminates, whatever the database holds
\* and however the embedding calls and inserts end.
C30_MainLoopTerminates == <>(regen.pc = "done")


(***************************************************************************)
(* Properties of the result of cluster.                                    *)
(***************************************************************************)
clusterReturned == op = "cluster" /\ pc = "done" /\ result.tag = "ClusterResult"

\* No returned centroid is strictly nearer to point i than the centroid of
\* the cluster the point is assigned to.
assignedNearest(i) ==
  LET a == result.assignments[i] IN
  \A c \in 1..Len(result.clusters) :
    ~Less(euclideanDistance(embeddings[i], result.clusters[c].centroid),
          euclideanDistance(embeddings[i], result.clusters[a.clusterId + 1].centroid))

\* C28 as stated: in every result of cluster, the runs stopped by
\* maxIterations included, every point is assigned to a nearest one of the
\* returned centroids.
C28_AssignedNearestInEveryResult ==
  clusterReturned => \A i \in 1..Len(embeddings) : assignedNearest(i)

\* C28, amended: in every result of cluster from a run that stopped because
\* the assignments were unchanged, every point is assigned to a nearest one
\* of the returned centroids.
C28_AssignedNearestWhenUnchanged ==
  (clusterReturned /\ stop = "unchanged") =>
    \A i \in 1..Len(embeddings) : assignedNearest(i)

\* A run that stopped on unchanged assignments after moving its centroids,
\* with a point in cluster 1 because that centroid is strictly nearer.
C28_Witness ==
  /\ clusterReturned /\ stop = "unchanged" /\ iter > 0
  /\ \E i \in 1..Len(embeddings) :
       /\ result.assignments[i].clusterId = 1
       /\ Less(euclideanDistance(embeddings[i], result.clusters[2].centroid),
               euclideanDistance(embeddings[i], result.clusters[1].centroid))


(***************************************************************************)
(* Provenance of the hits search returns.                                  *)
(***************************************************************************)
keyOf(h) == <<h.docId, h.page, h.chunkIndex>>

keysOf(rs) == {keyOf(rs[i]) : i \in 1..Len(rs)}

\* The hits of rs with the key of h.
withKeyOf(rs, h) == {rs[i] : i \in {j \in 1..Len(rs) : keyOf(rs[j]) = keyOf(h)}}

\* C29: a hit search returns has provenance "hybrid" only if its (document
\* id, page, chunk index) key is in both the vector result set and the
\* keyword result set of the call, and its score is then the vector score
\* boosted once; any other hit has the score its store gave it.
C29_HybridOnlyFromBothSetsBoostedOnce ==
  searchReturned =>
    \A i \in 1..Len(result.hits) :
      LET h == result.hits[i] IN
      IF h.matchType = "hybrid"
      THEN /\ keyOf(h) \in keysOf(vectorResults) \cap keysOf(ftsResults)
           /\ \E v \in withKeyOf(vectorResults, h) : h.score = boostScore(v.score)
      ELSE \E r \in withKeyOf(vectorResults, h) \cup withKeyOf(ftsResults, h) :
             h.score = r.score /\ h.matchType = r.matchType

\* A search returns a hit of both sets, boosted once below the cap, beside
\* a keyword-only hit of the same document that stays "fts".
C29_Witness ==
  /\ searchReturned /\ bothQueried
  /\ \E i, j \in 1..Len(result.hits) :
       /\ result.hits[i].matchType = "hybrid"
       /\ result.hits[i].score < ScoreScale
       /\ \E v \in withKeyOf(vectorResults, result.hits[i]) :
            result.hits[i].score = boostScore(v.score) /\ v.score < result.hits[i].score
       /\ result.hits[j].matchType = "fts"
       /\ result.hits[j].docId = result.hits[i].docId
       /\ keyOf(result.hits[j]) \notin keysOf(vectorResults)

====
